---- MODULE Spec2Model ----
(***************************************************************************)
(* Shardbound v4 combat prototype.                                         *)
(*                                                                         *)
(*  - resourceManager.js : typed resource pools of a combatant             *)
(*  - the two BattleScene variants: the one wired to combatManager.js      *)
(*    (useSkill) and the one with the K_DEF mitigation pipeline            *)
(*    (useAbility / endTurn)                                               *)
(*                                                                         *)
(*  - GameLogger : the telemetry queue shipped in batches (scene "log")    *)
(*                                                                         *)
(* Numbers are integers; a JavaScript value that may be undefined is an    *)
(* optional: <<>> when absent, <<n>> when present.                         *)
(***************************************************************************)
EXTENDS Integers, Sequences, FiniteSets, TLC

VARIABLES
    player,     \* the player combatant (flat stats, mp mirror, resources)
    enemy,      \* the enemy combatant (flat stats, cooldown map _cds)
    turnLock,   \* BattleScene.turnLock
    turn,       \* BattleScene.turn (round counter of the K_DEF scene)
    _turn,      \* BattleScene._turn (enemy turn counter)
    logs,       \* battle log, one tag per line
    pc,         \* where the round in flight is suspended
    cur,        \* locals of the round in flight (skill, effect index, ...)
    op,         \* last operation invoked, with its arguments
    ret,        \* what that operation returned
    hist,       \* observation counters (calls made, regenTurn runs, ...)
    scene       \* which program runs: "res" (resourceManager API), "cm", "kdef"

vars == <<player, enemy, turnLock, turn, _turn, logs, pc, cur, op, ret, hist, scene>>

---------------------------------------------------------------------------
(* Bounds of the model *)

\* largest amount / delta handed to a resource operation
MaxAmt == 3
\* largest value of the stat a pool may be tied to
MaxStat == 3
\* entry-point calls (useSkill / useAbility / endTurn) per encounter
MaxCalls == 3
\* hit points both combatants start an encounter with
MaxHp == 3

---------------------------------------------------------------------------
(* Small helpers *)

None == <<>>
Some(n) == <<n>>
Max2(a, b) == IF a >= b THEN a ELSE b
Min2(a, b) == IF a <= b THEN a ELSE b

\* Math.round of the rational n/d (d > 0): floor(n/d + 1/2)
Round(n, d) == (2 * n + d) \div (2 * d)

---------------------------------------------------------------------------
(* resourceManager.js *)

NoKey == ""

RESOURCE_ALIASES ==
    [mp |-> "mana", mana |-> "mana", sp |-> "stamina", stamina |-> "stamina",
     hp |-> "hp", energy |-> "energy", focus |-> "focus", faith |-> "faith",
     chi |-> "ki", ki |-> "ki", rage |-> "rage", fury |-> "rage"]

normalizeResourceKey(name) ==
    IF name = NoKey THEN NoKey
    ELSE IF name \in DOMAIN RESOURCE_ALIASES THEN RESOURCE_ALIASES[name]
    ELSE name

\* pickNumber(...values): the first value that is a finite number, else null
RECURSIVE pickNumber(_)
pickNumber(values) ==
    IF values = <<>> THEN None
    ELSE IF Head(values) # None THEN Head(values)
    ELSE pickNumber(Tail(values))

safeAmount(value) == Max2(0, value)

\* clampValue(value, min) with the default max of +Infinity
clampMin(value, min) == Max2(min, value)
clampValue(value, min, max) == Max2(min, Min2(max, value))

\* a numeric field of the combatant as an optional number
NumField(p, name) ==
    IF name \in {"mp", "mpMax"} THEN p[name]
    ELSE IF name \in {"hp", "hpMax", "atk", "mag", "def", "spd"} THEN Some(p[name])
    ELSE None

\* A cost / gain map as the catalog writes it: null, a number (priced in the
\* skill's `resource`), or an object / array of [rawKey, amount] entries.
NullMap == [kind |-> "null", n |-> 0, entries |-> <<>>]
NumMap(n) == [kind |-> "num", n |-> n, entries |-> <<>>]
ObjMap(entries) == [kind |-> "obj", n |-> 0, entries |-> entries]

\* the `add` closure of normalizeResourceMap: sums amounts per canonical key
addEntry(out, key, amount) ==
    IF key = NoKey \/ amount <= 0 THEN out
    ELSE IF \E i \in 1..Len(out) : out[i].key = key
         THEN [i \in 1..Len(out) |->
                 IF out[i].key = key
                 THEN [key |-> key, amount |-> out[i].amount + amount]
                 ELSE out[i]]
         ELSE Append(out, [key |-> key, amount |-> amount])

RECURSIVE addEntries(_, _)
addEntries(out, entries) ==
    IF entries = <<>> THEN out
    ELSE addEntries(addEntry(out, normalizeResourceKey(Head(entries)[1]),
                             safeAmount(Head(entries)[2])),
                    Tail(entries))

normalizeResourceMap(map, fallbackKey) ==
    IF map.kind = "null" THEN <<>>
    ELSE IF map.kind = "num"
         THEN addEntry(<<>>, normalizeResourceKey(fallbackKey), safeAmount(map.n))
    ELSE addEntries(<<>>, map.entries)

HasPool(p, key) == key \in DOMAIN p.resources

\* adjustResource: the combatant afterwards
adjustResourceMutant(p, key, delta) ==
    LET canonical == normalizeResourceKey(key) IN
    IF canonical = NoKey \/ ~HasPool(p, canonical) THEN p
    ELSE LET pool == p.resources[canonical]
             after == pool.current + delta
             q == [p EXCEPT !.resources[canonical].current = after]
         IN IF canonical = "mana"
            THEN [q EXCEPT !.mp = Some(after), !.mpMax = Some(clampMin(pool.max, 0))]
            ELSE q

adjustResourceUnmirrored(p, key, delta) ==
    LET canonical == normalizeResourceKey(key) IN
    IF canonical = NoKey \/ ~HasPool(p, canonical) THEN p
    ELSE LET pool == p.resources[canonical] IN
         [p EXCEPT !.resources[canonical].current =
                      clampValue(pool.current + delta, 0, clampMin(pool.max, 0))]

adjustResource(p, key, delta) ==
    LET canonical == normalizeResourceKey(key) IN
    IF canonical = NoKey \/ ~HasPool(p, canonical) THEN p
    ELSE LET pool == p.resources[canonical]
             before == pool.current
             max == clampMin(pool.max, 0)
             after == clampValue(before + delta, 0, max)
             q == [p EXCEPT !.resources[canonical].current = after]
         IN IF canonical = "mana"
            THEN [q EXCEPT !.mp = Some(after), !.mpMax = Some(max)]
            ELSE q

\* adjustResource: the delta record it returns (null when there is no pool)
adjustResourceDelta(p, key, delta) ==
    LET canonical == normalizeResourceKey(key) IN
    IF canonical = NoKey \/ ~HasPool(p, canonical) THEN None
    ELSE LET pool == p.resources[canonical]
             before == pool.current
             max == clampMin(pool.max, 0)
             after == clampValue(before + delta, 0, max)
         IN Some([key |-> canonical, previous |-> before, current |-> after,
                  delta |-> after - before, max |-> max])

canSpendMutant(p, key, amount) ==
    LET canonical == normalizeResourceKey(key) IN
    canonical # NoKey /\ HasPool(p, canonical)

canSpend(p, key, amount) ==
    LET canonical == normalizeResourceKey(key) IN
    IF canonical = NoKey THEN FALSE
    ELSE IF ~HasPool(p, canonical) THEN FALSE
    ELSE p.resources[canonical].current >= safeAmount(amount)

spendOk(p, key, amount) ==
    LET canonical == normalizeResourceKey(key) IN
    IF canonical = NoKey THEN FALSE
    ELSE canSpend(p, canonical, amount)

spend(p, key, amount) ==
    IF spendOk(p, key, amount)
    THEN adjustResource(p, normalizeResourceKey(key), 0 - safeAmount(amount))
    ELSE p

\* validateResourceCost: the entries that cannot be paid
availableOfMutant(p, key) == IF HasPool(p, key) THEN p.resources[key].current ELSE 1

availableOf(p, key) == IF HasPool(p, key) THEN p.resources[key].current ELSE 0

RECURSIVE missingOf(_, _)
missingOf(p, entries) ==
    IF entries = <<>> THEN <<>>
    ELSE LET e == Head(entries)
             rest == missingOf(p, Tail(entries))
         IN IF ~HasPool(p, e.key) \/ availableOf(p, e.key) < e.amount
            THEN <<[key |-> e.key, required |-> e.amount,
                    available |-> availableOf(p, e.key)]>> \o rest
            ELSE rest

validateResourceCostMutant(p, costMap, fallbackKey) ==
    LET entries == normalizeResourceMap(costMap, fallbackKey)
        missing == missingOf(p, SubSeq(entries, 1, Min2(1, Len(entries))))
    IN [ok |-> missing = <<>>, missing |-> missing, entries |-> entries]

validateResourceCost(p, costMap, fallbackKey) ==
    LET entries == normalizeResourceMap(costMap, fallbackKey)
        missing == missingOf(p, entries)
    IN [ok |-> missing = <<>>, missing |-> missing, entries |-> entries]

\* the loop `for (const {key, amount} of entries) adjustResource(player, key, sign*amount)`
RECURSIVE adjustAll(_, _, _)
adjustAll(p, entries, sign) ==
    IF entries = <<>> THEN p
    ELSE adjustAll(adjustResource(p, Head(entries).key, sign * Head(entries).amount),
                   Tail(entries), sign)

\* the deltas that loop collects (entries without a pool give none)
RECURSIVE deltasOf(_, _, _)
deltasOf(p, entries, sign) ==
    IF entries = <<>> THEN <<>>
    ELSE LET d == adjustResourceDelta(p, Head(entries).key, sign * Head(entries).amount)
             rest == deltasOf(adjustResource(p, Head(entries).key,
                                             sign * Head(entries).amount),
                              Tail(entries), sign)
         IN IF d = None THEN rest ELSE <<d[1]>> \o rest

applyResourceCost(p, costMap, fallbackKey) ==
    LET check == validateResourceCost(p, costMap, fallbackKey) IN
    IF ~check.ok THEN p ELSE adjustAll(p, check.entries, -1)

applyResourceCostRet(p, costMap, fallbackKey) ==
    LET check == validateResourceCost(p, costMap, fallbackKey) IN
    [ok |-> check.ok, missing |-> check.missing, entries |-> check.entries,
     deltas |-> IF check.ok THEN deltasOf(p, check.entries, -1) ELSE <<>>]

applyResourceGainMutant(p, map, fallbackKey) ==
    adjustAll(p, SubSeq(normalizeResourceMap(map, fallbackKey), 2,
                        Len(normalizeResourceMap(map, fallbackKey))), 1)

applyResourceGain(p, map, fallbackKey) ==
    adjustAll(p, normalizeResourceMap(map, fallbackKey), 1)

applyResourceGainRet(p, map, fallbackKey) ==
    LET entries == normalizeResourceMap(map, fallbackKey) IN
    [entries |-> entries, deltas |-> deltasOf(p, entries, 1)]

\* one pass of syncCanonical's loop body over a pool
syncPoolMutant(p, res) ==
    LET statValue == IF res.tiesToStat # None
                     THEN pickNumber(<<NumField(p, res.tiesToStat[1])>>)
                     ELSE None
    IN [res EXCEPT !.max = IF statValue # None THEN clampMin(statValue[1], 0)
                             ELSE clampMin(res.max, 0)]

syncPool(p, res) ==
    LET statValue == IF res.tiesToStat # None
                     THEN pickNumber(<<NumField(p, res.tiesToStat[1])>>)
                     ELSE None
        max1 == IF statValue # None THEN clampMin(statValue[1], 0) ELSE res.max
        max2 == clampMin(max1, 0)
    IN [res EXCEPT !.max = max2, !.current = clampValue(res.current, 0, max2)]

syncCanonical(p) ==
    LET synced == [k \in DOMAIN p.resources |-> syncPool(p, p.resources[k])]
        q == [p EXCEPT !.resources = synced]
    IN IF "mana" \in DOMAIN synced
       THEN [q EXCEPT !.mpMax = Some(synced["mana"].max),
                      !.mp = Some(synced["mana"].current)]
       ELSE q

\* regenTurn: every pool with a truthy regenPerTurn gains it through adjustResource
RECURSIVE regenOverMutant(_, _)
regenOverMutant(p, keys) ==
    IF keys = {} THEN p
    ELSE LET k == CHOOSE x \in keys : TRUE
         IN regenOverMutant(adjustResource(p, k, Max2(1, p.resources[k].regenPerTurn)),
                            keys \ {k})

RECURSIVE regenOver(_, _)
regenOver(p, keys) ==
    IF keys = {} THEN p
    ELSE LET k == CHOOSE x \in keys : TRUE
             q == IF p.resources[k].regenPerTurn # 0
                  THEN adjustResource(p, k, p.resources[k].regenPerTurn)
                  ELSE p
         IN regenOver(q, keys \ {k})

regenTurnMutant(p) == p

regenTurnExpiring(p) == [regenOver(p, DOMAIN p.resources) EXCEPT !.shield = 0]

regenTurn(p) == regenOver(p, DOMAIN p.resources)

\* computeDefaultMax / RESOURCE_DEFAULT_MAX
DefaultPoolMax == 100

computeDefaultMax(key, p) ==
    IF key = "mana"
    THEN LET n == pickNumber(<<p.mpMax, p.mp, Some(0)>>) IN n[1]
    ELSE IF key \in {"stamina", "energy", "focus", "faith", "ki", "rage"}
         THEN DefaultPoolMax
    ELSE 0

\* A resource definition of the class catalog:
\*   max, current, regenPerTurn : optional numbers; maxFromStat : optional
\*   stat name; start : "none" | "full" | "num" (with its number n)
NoStart == [kind |-> "none", n |-> 0]
FullStart == [kind |-> "full", n |-> 0]
NumStart(n) == [kind |-> "num", n |-> n]
EmptyDef ==
    [max |-> None, maxFromStat |-> None, start |-> NoStart, current |-> None,
     regenPerTurn |-> None]

computeResourceMax(key, def, p) ==
    LET explicit == pickNumber(<<def.max>>)
        fromStat == IF def.maxFromStat # None
                    THEN pickNumber(<<NumField(p, def.maxFromStat[1])>>)
                    ELSE None
        fromPlayerKey == pickNumber(<<IF key = "hp" THEN Some(p.hpMax) ELSE None>>)
        mp == IF key = "mana" THEN pickNumber(<<p.mpMax, p.mp>>) ELSE None
    IN IF explicit # None THEN clampMin(explicit[1], 0)
       ELSE IF fromStat # None THEN clampMin(fromStat[1], 0)
       ELSE IF fromPlayerKey # None THEN clampMin(fromPlayerKey[1], 0)
       ELSE IF mp # None THEN clampMin(mp[1], 0)
       ELSE clampMin(computeDefaultMax(key, p), 0)

computeResourceStart(key, def, max, p) ==
    LET explicit == pickNumber(<<def.current>>)
        mp == IF key = "mana" THEN pickNumber(<<p.mp>>) ELSE None
        fromPlayer == pickNumber(<<IF key = "hp" THEN Some(p.hp) ELSE None>>)
    IN IF def.start.kind = "full" THEN max
       ELSE IF def.start.kind = "num" THEN clampValue(def.start.n, 0, max)
       ELSE IF explicit # None THEN clampValue(explicit[1], 0, max)
       ELSE IF mp # None THEN clampValue(mp[1], 0, max)
       ELSE IF fromPlayer # None THEN clampValue(fromPlayer[1], 0, max)
       ELSE IF max > 0 THEN max ELSE 0

KeysOfEntries(entries) == {entries[i].key : i \in 1..Len(entries)}

\* the keys one skill contributes in collectClassResourceKeys
skillResourceKeys(skill) ==
    KeysOfEntries(normalizeResourceMap(skill.cost, skill.resource))
      \cup KeysOfEntries(normalizeResourceMap(skill.refund, skill.resource))
      \cup KeysOfEntries(normalizeResourceMap(skill.restore, skill.resource))
      \cup (IF (skill.cost.kind = "null" \/ (skill.cost.kind = "num" /\ skill.cost.n = 0))
               /\ skill.resource # NoKey
            THEN {normalizeResourceKey(skill.resource)} ELSE {})

collectClassResourceKeys(classDef) ==
    {normalizeResourceKey(classDef.resources[i]) : i \in 1..Len(classDef.resources)}
      \cup UNION {skillResourceKeys(classDef.skills[i]) : i \in 1..Len(classDef.skills)}

\* definitions[key] = {...def}: a later raw key of the same pool overwrites
definitionFor(classDef, key) ==
    LET defs == classDef.resourceDefinitions
        idx == {i \in 1..Len(defs) : normalizeResourceKey(defs[i][1]) = key}
    IN IF idx = {} THEN EmptyDef
       ELSE defs[CHOOSE i \in idx : \A j \in idx : j <= i][2]

initFromClass(classDef, p) ==
    LET defs == classDef.resourceDefinitions
        defKeys == {normalizeResourceKey(defs[i][1]) : i \in 1..Len(defs)}
        mpCandidate == pickNumber(<<p.mpMax, p.mp>>)
        keys == ((collectClassResourceKeys(classDef) \cup defKeys)
                   \cup (IF mpCandidate # None /\ mpCandidate[1] > 0
                         THEN {"mana"} ELSE {})) \ {NoKey}
        pool(key) ==
            LET def == definitionFor(classDef, key)
                max == computeResourceMax(key, def, p)
            IN [current |-> computeResourceStart(key, def, max, p),
                max |-> max,
                regenPerTurn |-> IF def.regenPerTurn = None THEN 0
                                 ELSE safeAmount(def.regenPerTurn[1]),
                tiesToStat |-> def.maxFromStat]
    IN syncCanonical([p EXCEPT !.resources = [key \in keys |-> pool(key)]])

---------------------------------------------------------------------------
(* Catalog shapes shared by the two scenes *)

\* One effect of a skill. Unused fields keep their defaults.
\*   damage      : formula `stat * num / den`
\*   damage_roll : min, max, scaling.atk (sAtk), scaling.mag (sMag)
\*   heal, shield, vuln : amount     buff : stat, amount, target
\*   evasion     : amount (amountPct)
Fx(kind) ==
    [kind |-> kind, stat |-> "atk", num |-> 1, den |-> 1, min |-> 1, max |-> 3,
     sAtk |-> 0, sMag |-> 0, amount |-> 0, target |-> ""]
DamageFx(stat, num, den) == [Fx("damage") EXCEPT !.stat = stat, !.num = num, !.den = den]
DamageRollFx(min, max, sAtk, sMag) ==
    [Fx("damage_roll") EXCEPT !.min = min, !.max = max, !.sAtk = sAtk, !.sMag = sMag]
HealFx(amount) == [Fx("heal") EXCEPT !.amount = amount]
ShieldFx(amount, target) == [Fx("shield") EXCEPT !.amount = amount, !.target = target]
BuffFx(stat, amount, target) ==
    [Fx("buff") EXCEPT !.stat = stat, !.amount = amount, !.target = target]

\* A skill of the player's action bar or of the enemy's `skills` map.
Skill(id, type, target, effects) ==
    [id |-> id, type |-> type, target |-> target, effects |-> effects,
     cost |-> NullMap, resource |-> NoKey, refund |-> NullMap, restore |-> NullMap,
     tags |-> {}, cooldown |-> None, hitChance |-> None]

\* a combatant as the sandbox / adaptEnemy build it: flat stats, no `stats`
\* or `resist` objects
NoPools == [k \in {} |-> 0]
Combatant(hp, mp, atk, mag, def) ==
    [hp |-> hp, hpMax |-> hp, mp |-> Some(mp), mpMax |-> Some(mp),
     atk |-> atk, mag |-> mag, def |-> def, spd |-> 3,
     shield |-> 0, vuln |-> 0, evasionPct |-> 0,
     stats |-> NoPools, resist |-> NoPools,
     resources |-> NoPools, cds |-> NoPools, raw |-> ""]

\* _ctxFor + _evalFormula for a formula `stat * num / den`: the rational <<n, d>>
evalFormula(fx, u) == <<u[fx.stat] * fx.num, fx.den>>

---------------------------------------------------------------------------
(* The scene with the K_DEF pipeline: math and stat application *)

K_DEF == 12
VARIANCE_MIN == 90
VARIANCE_MAX == 110
CRIT_MULT == 150

\* the draws of _rand(VARIANCE_MIN, VARIANCE_MAX), in percent, that the model tries
VarianceDraws == {VARIANCE_MIN, (VARIANCE_MIN + VARIANCE_MAX) \div 2, VARIANCE_MAX - 1}

\* a JavaScript number as the damage math can produce it: an integer or NaN
NaN == [nan |-> TRUE, n |-> 0]
Num(n) == [nan |-> FALSE, n |-> n]

effectiveDefMutant(target) == target.def - target.vuln

\* defEff = Math.max(0, baseDef - vuln)
effectiveDef(target) == Max2(0, target.def - target.vuln)

\* mult = k / (defEff + k), as the pair <<numerator, denominator>>
mitigationMult(target, k) == <<k, effectiveDef(target) + k>>

\* afterMit = Math.max(0, raw * mult) for raw = rn / rd, as a pair
afterMitigation(rn, rd, target, k) ==
    <<Max2(0, rn * mitigationMult(target, k)[1]), rd * mitigationMult(target, k)[2]>>

\* _calcDamage(raw, target).result.final for raw = rn/rd, this.K_DEF = k >= 0
\* (onEnter takes any number of the payload), a variance draw (percent) and a
\* crit outcome. With defEff + k = 0 the multiplier is 0 / 0, and NaN passes
\* through Math.max(0, .), the variance, the crit and Math.max(1, Math.round(.)).
calcDamageK(rn, rd, target, k, varFactor, didCrit) ==
    LET mit == afterMitigation(rn, rd, target, k)
        varN == mit[1] * varFactor
        varD == mit[2] * 100
        critN == IF didCrit THEN varN * CRIT_MULT ELSE varN
        critD == IF didCrit THEN varD * 100 ELSE varD
    IN IF mitigationMult(target, k)[2] = 0 THEN NaN
       ELSE Num(Max2(1, Round(critN, critD)))

\* the same under the scene's default K_DEF
calcDamage(rn, rd, target, varFactor, didCrit) ==
    calcDamageK(rn, rd, target, K_DEF, varFactor, didCrit).n

applyDamageMutant(target, amount) ==
    [target EXCEPT !.hp = Max2(0, target.hp - amount),
                   !.shield = Max2(0, target.shield - amount)]

\* _applyDamage: the target afterwards
applyDamage(target, amount) ==
    LET absorbed == IF target.shield > 0 THEN Min2(target.shield, amount) ELSE 0
        left == amount - absorbed
        t1 == [target EXCEPT !.shield = target.shield - absorbed]
    IN IF left > 0 THEN [t1 EXCEPT !.hp = Max2(0, target.hp - left)] ELSE t1

\* the lines _applyDamage logs
applyDamageLogs(target, amount) ==
    LET absorbed == IF target.shield > 0 THEN Min2(target.shield, amount) ELSE 0 IN
    (IF absorbed > 0 THEN <<"absorbs">> ELSE <<>>)
      \o (IF amount - absorbed > 0 THEN <<"takes">> ELSE <<>>)

healTargetMutant(target, amount) == [target EXCEPT !.hp = target.hp + amount]

healTarget(target, amount) ==
    [target EXCEPT !.hp = Min2(target.hpMax, target.hp + amount)]

applyBuff(target, stat, amount) == [target EXCEPT ![stat] = target[stat] + amount]

applyShield(target, amount) == [target EXCEPT !.shield = target.shield + amount]

\* One pass of the loop of _applySkillEffects for effect fx: <<source, target,
\* lines logged>> afterwards. roll is the _randInt draw of damage_roll.
applySkillEffect(source, target, fx, roll, varFactor, didCrit) ==
    LET same == FALSE   \* source === target: the two combatants are distinct objects
        who == IF same THEN "source"
               ELSE IF fx.target = "self" THEN "source" ELSE "target"
    IN
    CASE fx.kind = "damage" ->
           LET raw == evalFormula(fx, source)
               final == calcDamage(raw[1], raw[2], target, varFactor, didCrit)
           IN <<source, applyDamage(target, final), applyDamageLogs(target, final)>>
      [] fx.kind = "damage_roll" ->
           LET scale == (IF fx.sAtk # 0 THEN source.atk * fx.sAtk ELSE 0)
                          + (IF fx.sMag # 0 THEN source.mag * fx.sMag ELSE 0)
               final == calcDamage(roll + scale, 1, target, varFactor, didCrit)
           IN <<source, applyDamage(target, final), applyDamageLogs(target, final)>>
      [] fx.kind = "heal" ->
           <<source, healTarget(target, Max2(1, fx.amount)), <<"recovers">> >>
      [] fx.kind = "buff" ->
           IF who = "source"
           THEN <<applyBuff(source, fx.stat, fx.amount), target, <<"buff">> >>
           ELSE <<source, applyBuff(target, fx.stat, fx.amount), <<"buff">> >>
      [] fx.kind = "shield" ->
           IF who = "source"
           THEN <<applyShield(source, fx.amount), target, <<"shield">> >>
           ELSE <<source, applyShield(target, fx.amount), <<"shield">> >>
      [] fx.kind = "evasion" ->
           <<[source EXCEPT !.evasionPct = Max2(0, source.evasionPct + fx.amount)],
             target, <<"evasive">> >>
      [] fx.kind = "vuln" ->
           <<source, [target EXCEPT !.vuln = Max2(0, target.vuln + fx.amount)],
             <<"exposed">> >>
      [] fx.kind = "root" -> <<source, target, <<"rooted">> >>
      [] fx.kind = "slow" ->
           <<source, [target EXCEPT !.spd = Max2(0, target.spd - fx.amount)],
             <<"slowed">> >>
      [] fx.kind = "taunt" -> <<source, target, <<"taunts">> >>
      [] fx.kind = "dot" -> <<source, target, <<"lingering">> >>
      [] OTHER -> <<source, target, <<"not implemented">> >>

---------------------------------------------------------------------------
(* combatManager.js *)

baseHitChance == 70

\* `a ?? b ?? 0` over an object that may lack both keys
Get2(obj, a, b) ==
    IF a \in DOMAIN obj THEN obj[a] ELSE IF b \in DOMAIN obj THEN obj[b] ELSE 0

\* fromCatalog: the normalized actor. A pool object under resources.mp is no
\* number, so getNumber falls back to 0 for it.
fromCatalog(actor) ==
    [accuracy |-> Get2(actor.stats, "ACC", "DEX"),
     evasion |-> Get2(actor.stats, "EVA", "DEX"),
     atk |-> Get2(actor.stats, "ATK", "STR"),
     def |-> Get2(actor.stats, "DEF", "ARMOR"),
     magAtk |-> Get2(actor.stats, "MAG", "INT"),
     magRes |-> Get2(actor.stats, "MRES", "WIS"),
     mp |-> Get2(actor.stats, "MP", "MP"),
     elementalRes |-> [el \in {"fire", "frost", "lightning", "poison"} |->
                         Get2(actor.resist, el, el)]]

\* An ability handed to resolveAttack; powerBonus is the rational pbN / pbD.
Ability(type, base, variance, pbN, pbD, element) ==
    [type |-> type, base |-> base, variance |-> variance, pbN |-> pbN, pbD |-> pbD,
     element |-> element, accuracyBonus |-> 0, mpCost |-> 0]

\* rollD100 for an rng draw in [0, 1) given in thousandths
rollD100(rng) == (rng * 100) \div 1000 + 1

\* computeHit's chance under config.baseHitChance = base
hitChanceCfgMutant(base, atk, def, ability) ==
    base + atk.accuracy + ability.accuracyBonus - def.evasion

hitChanceCfg(base, atk, def, ability) ==
    clampValue(base + atk.accuracy + ability.accuracyBonus - def.evasion, 5, 95)

\* computeHit for a d100 roll, under the default baseHitChance
hitChance(atk, def, ability) == hitChanceCfg(baseHitChance, atk, def, ability)
computeHitCfg(base, atk, def, ability, roll) == roll <= hitChanceCfg(base, atk, def, ability)
computeHit(atk, def, ability, roll) == computeHitCfg(baseHitChance, atk, def, ability, roll)

computeDamageMutant(atk, def, ability, r) ==
    LET variancePct == clampValue(ability.variance, 0, 100)
        rawN == (ability.base * 10000 + ability.base * variancePct * r) * ability.pbD
                  + (atk.atk - def.def) * 10000 * ability.pbD
                  + ability.pbN * 10000
        rawD == 10000 * ability.pbD
        resistPct == IF ability.element = "" THEN 0
                     ELSE clampValue(def.elementalRes[ability.element], 0, 100)
    IN Max2(1, Round(rawN * (100 - resistPct), rawD * 100))

\* computeDamage(...).total; r is the variance draw (rng()*2 - 1) in hundredths
computeDamage(atk, def, ability, r) ==
    LET variancePct == clampValue(ability.variance, 0, 100)
        stat == IF ability.type = "magic" THEN atk.magAtk ELSE atk.atk
        mit == IF ability.type = "magic" THEN def.magRes ELSE def.def
        \* raw = variedBase + stat + powerBonus - mit over the denominator 10000 * pbD
        rawN == (ability.base * 10000 + ability.base * variancePct * r) * ability.pbD
                  + (stat - mit) * 10000 * ability.pbD
                  + ability.pbN * 10000
        rawD == 10000 * ability.pbD
        resistPct == IF ability.element = "" THEN 0
                     ELSE clampValue(def.elementalRes[ability.element], 0, 100)
    IN Max2(1, Round(rawN * (100 - resistPct), rawD * 100))

rngDrawsMutant(ability, hit) ==
    1 + (IF clampValue(ability.variance, 0, 100) > 0 THEN 1 ELSE 0)

\* the rng() calls of a resolved attack: one in computeHit, one more in
\* computeDamage when the ability has a variance
rngDraws(ability, hit) ==
    1 + (IF hit /\ clampValue(ability.variance, 0, 100) > 0 THEN 1 ELSE 0)

resolveAttackMutant(attacker, defender, ability, roll, r) ==
    LET atk == fromCatalog(attacker)
        def == fromCatalog(defender)
        hit == computeHit(atk, def, ability, roll)
    IN [ok |-> TRUE, hit |-> hit,
        damage |-> IF hit THEN computeDamage(atk, def, ability, r) ELSE 0,
        reason |-> "", draws |-> rngDraws(ability, hit),
        events |-> IF hit THEN <<"attack/hit", "damage">> ELSE <<"attack/miss">>]

\* resolveAttack: ok / hit / totals.damage / reason / the types of its events,
\* and how often it drew from the rng
resolveAttack(attacker, defender, ability, roll, r) ==
    LET atk == fromCatalog(attacker)
        def == fromCatalog(defender)
    IN IF ~(atk.mp >= ability.mpCost)
       THEN [ok |-> FALSE, hit |-> FALSE, damage |-> 0,
             reason |-> "INSUFFICIENT_RESOURCE", draws |-> 0, events |-> <<>>]
       ELSE IF ~computeHit(atk, def, ability, roll)
       THEN [ok |-> TRUE, hit |-> FALSE, damage |-> 0, reason |-> "",
             draws |-> rngDraws(ability, FALSE), events |-> <<"attack/miss">>]
       ELSE [ok |-> TRUE, hit |-> TRUE, damage |-> computeDamage(atk, def, ability, r),
             reason |-> "", draws |-> rngDraws(ability, TRUE),
             events |-> <<"attack/hit", "damage">>]

resolveAttackArgsMutant(attacker, defender, ability, roll, r) ==
    LET result == resolveAttack(attacker, defender, ability, roll, r) IN
    <<attacker, [defender EXCEPT !.hp = Max2(0, defender.hp - result.damage)], ability>>

\* the objects handed to resolveAttack once it has returned: it reads them
\* through normalizeActor and getNumber and assigns to none of them
resolveAttackArgs(attacker, defender, ability, roll, r) ==
    <<attacker, defender, ability>>

---------------------------------------------------------------------------
(* The scene wired to combatManager.js: skill mapping and inline effects *)

FirstFx(skill, kind) ==
    LET idx == {i \in 1..Len(skill.effects) : skill.effects[i].kind = kind} IN
    IF idx = {} THEN None
    ELSE Some(skill.effects[CHOOSE i \in idx : \A j \in idx : i <= j])

ElementOf(tags) ==
    IF "fire" \in tags THEN "fire"
    ELSE IF "frost" \in tags THEN "frost"
    ELSE IF "lightning" \in tags THEN "lightning"
    ELSE IF "poison" \in tags THEN "poison"
    ELSE ""

\* _abilityFromSkill / _abilityFromEnemySkill (withElement tells them apart):
\* the ability, or null for a skill without a damage effect. roll is the
\* _randInt draw of a damage_roll.
abilityFromSkill(attacker, skill, roll, withElement) ==
    LET dmg == FirstFx(skill, "damage")
        dmgRoll == FirstFx(skill, "damage_roll")
        atkScale == IF dmgRoll # None /\ dmgRoll[1].sAtk # 0
                    THEN attacker.atk * dmgRoll[1].sAtk ELSE 0
        magScale == IF dmgRoll # None /\ dmgRoll[1].sMag # 0
                    THEN attacker.mag * dmgRoll[1].sMag ELSE 0
        scaled == IF dmg # None THEN evalFormula(dmg[1], attacker)
                  ELSE <<roll + atkScale + magScale, 1>>
        track == IF dmg # None
                 THEN (IF dmg[1].stat = "mag" THEN "magic" ELSE "physical")
                 ELSE (IF magScale > atkScale THEN "magic" ELSE "physical")
        stat == IF track = "magic" THEN attacker.mag ELSE attacker.atk
    IN IF dmg = None /\ dmgRoll = None THEN None
       ELSE Some(Ability(track, 0, 0, scaled[1] - stat * scaled[2], scaled[2],
                         IF withElement THEN ElementOf(skill.tags) ELSE ""))

\* one case of the switch of _applyNonDamageEffect: <<source, target, lines>>
nonDamageEffect(source, target, fx) ==
    CASE fx.kind = "heal" ->
           <<[source EXCEPT !.hp = Min2(source.hpMax, source.hp + Max2(1, fx.amount))],
             target, <<"recovers">> >>
      [] fx.kind = "shield" ->
           <<[source EXCEPT !.shield = source.shield + fx.amount], target, <<"shield">> >>
      [] fx.kind = "buff" ->
           <<[source EXCEPT ![fx.stat] = source[fx.stat] + fx.amount], target, <<"buff">> >>
      [] fx.kind = "root" -> <<source, target, <<"rooted">> >>
      [] fx.kind = "vuln" ->
           <<source, [target EXCEPT !.vuln = Max2(0, target.vuln + fx.amount)],
             <<"exposed">> >>
      [] OTHER -> <<source, target, <<>> >>

\* the whole loop of _applyNonDamageEffect (it never suspends)
RECURSIVE applyNonDamageEffect(_, _, _)
applyNonDamageEffect(source, target, effects) ==
    IF effects = <<>> THEN <<source, target, <<>> >>
    ELSE LET one == nonDamageEffect(source, target, Head(effects))
             rest == applyNonDamageEffect(one[1], one[2], Tail(effects))
         IN <<rest[1], rest[2], one[3] \o rest[3]>>

---------------------------------------------------------------------------
(* Enemy decision policy (_enemyTurn of both scenes) *)

\* The raw enemy definitions of the catalog: skills in declaration order and
\* aiHints (an absent list is <<>>-less: None).
EnemyRaw(skills, openers, priority) ==
    [skills |-> skills, openers |-> openers, priority |-> priority]

EnemyCatalog ==
    [drake |-> EnemyRaw(
        << [Skill("fireball", "attack", "enemy", <<DamageFx("mag", 1, 1)>>)
              EXCEPT !.cooldown = Some(2), !.hitChance = Some(80)],
           [Skill("howl", "buff", "self", <<BuffFx("atk", 1, "self")>>)
              EXCEPT !.cooldown = Some(1)] >>,
        Some(<<"ghost", "fireball">>), Some(<<"howl">>)),
     wolf |-> EnemyRaw(
        << [Skill("claw", "attack", "enemy", <<DamageRollFx(1, 2, 1, 0)>>)
              EXCEPT !.cooldown = Some(2)] >>,
        None, None)]

NoRaw == EnemyRaw(<<>>, None, None)
rawOf(e) == IF e.raw \in DOMAIN EnemyCatalog THEN EnemyCatalog[e.raw] ELSE NoRaw

SkillIds(skills) == {skills[i].id : i \in 1..Len(skills)}
SkillById(skills, id) == skills[CHOOSE i \in 1..Len(skills) : skills[i].id = id]

cdLeft(e, id) == IF id \in DOMAIN e.cds THEN e.cds[id] ELSE 0

\* the closure isUsable of _enemyTurn
isUsableMutant(e, skills, id) == id \in SkillIds(skills)

isUsable(e, skills, id) == id \in SkillIds(skills) /\ cdLeft(e, id) <= 0

\* Array.prototype.find(isUsable) over a list of ids: the id, or "" (undefined)
RECURSIVE findUsable(_, _, _)
findUsable(e, skills, ids) ==
    IF ids = <<>> THEN ""
    ELSE IF isUsable(e, skills, Head(ids)) THEN Head(ids)
    ELSE findUsable(e, skills, Tail(ids))

\* Object.entries(skills).find(([id, def]) => def.type === 'attack' && isUsable(id))
RECURSIVE findAttack(_, _, _)
findAttack(e, skills, rest) ==
    IF rest = <<>> THEN ""
    ELSE IF Head(rest).type = "attack" /\ isUsable(e, skills, Head(rest).id)
         THEN Head(rest).id
    ELSE findAttack(e, skills, Tail(rest))

\* the id of the skill _enemyTurn picks when the enemy turn counter is t:
\* openers on turn 1, then priority, then any usable attack, then the fallback
selectEnemySkillMutant(e, t) ==
    LET raw == rawOf(e)
        prio == IF raw.priority # None THEN findUsable(e, raw.skills, raw.priority[1])
                ELSE ""
        first == IF prio = "" /\ t = 1 /\ raw.openers # None
                 THEN findUsable(e, raw.skills, raw.openers[1]) ELSE ""
        anyAtk == IF first = "" /\ prio = "" THEN findAttack(e, raw.skills, raw.skills)
                  ELSE ""
    IN IF prio # "" THEN prio
       ELSE IF first # "" THEN first
       ELSE IF anyAtk # "" THEN anyAtk
       ELSE "enemy_attack"

selectEnemySkill(e, t) ==
    LET raw == rawOf(e)
        first == IF t = 1 /\ raw.openers # None
                 THEN findUsable(e, raw.skills, raw.openers[1]) ELSE ""
        prio == IF first = "" /\ raw.priority # None
                THEN findUsable(e, raw.skills, raw.priority[1]) ELSE ""
        anyAtk == IF first = "" /\ prio = "" THEN findAttack(e, raw.skills, raw.skills)
                  ELSE ""
    IN IF first # "" THEN first
       ELSE IF prio # "" THEN prio
       ELSE IF anyAtk # "" THEN anyAtk
       ELSE "enemy_attack"

\* the synthesized fallback of each scene
FallbackCM == Skill("enemy_attack", "attack", "enemy", <<DamageRollFx(1, 3, 1, 0)>>)
FallbackK ==
    [Skill("enemy_attack", "attack", "enemy", <<DamageFx("atk", 9, 10)>>)
       EXCEPT !.hitChance = Some(100)]

\* _mkEnemySkill for the chosen id (or the fallback literal)
mkEnemySkill(e, id, fallback) ==
    IF id \in SkillIds(rawOf(e).skills) THEN SkillById(rawOf(e).skills, id) ELSE fallback

\* `for (const k of Object.keys(e._cds)) e._cds[k] = Math.max(0, (e._cds[k] || 0) - 1)`
tickCooldownsMutant(e) == e

tickCooldowns(e) ==
    [e EXCEPT !.cds = [k \in DOMAIN e.cds |-> Max2(0, e.cds[k] - 1)]]

\* `if (rawDef && typeof rawDef.cooldown === 'number') e._cds[skill.id] = rawDef.cooldown`
startCooldownMutant(e, id) == e

startCooldown(e, id) ==
    LET skills == rawOf(e).skills IN
    IF id \in SkillIds(skills) /\ SkillById(skills, id).cooldown # None
    THEN [e EXCEPT !.cds = [k \in DOMAIN e.cds \cup {id} |->
                              IF k = id THEN SkillById(skills, id).cooldown[1]
                              ELSE e.cds[k]]]
    ELSE e

---------------------------------------------------------------------------
(* Encounter set-up (sandbox startFight + onEnter) *)

\* the class catalog of the player: resource definitions and the skill kit
HeroClass ==
    [resourceDefinitions |->
        << <<"mp", [EmptyDef EXCEPT !.start = NumStart(2), !.regenPerTurn = Some(1)]>>,
           <<"sp", [EmptyDef EXCEPT !.maxFromStat = Some("spd"), !.start = FullStart]>> >>,
     resources |-> <<>>,
     skills |->
        << [Skill("bolt", "attack", "enemy", <<DamageFx("mag", 1, 1)>>)
              EXCEPT !.cost = NumMap(2), !.resource = "mp", !.tags = {"fire"}],
           [Skill("combo", "attack", "enemy", <<DamageRollFx(1, 2, 1, 0)>>)
              EXCEPT !.cost = ObjMap(<< <<"sp", 2>>, <<"mp", 1>>, <<"mana", 1>> >>)],
           [Skill("mend", "heal", "self", <<HealFx(2), Fx("mark"), ShieldFx(1, "self")>>)
              EXCEPT !.cost = NumMap(1), !.resource = "sp"] >>]

BasicAttack == Skill("basic_attack", "attack", "enemy", <<DamageFx("atk", 8, 10)>>)
Defend == Skill("defend", "buff", "self", <<BuffFx("def", 2, "")>>)

\* this.actionBar after onEnter
actionBar(sc) ==
    IF sc = "kdef" THEN <<BasicAttack, Defend>> \o HeroClass.skills
    ELSE <<BasicAttack>> \o HeroClass.skills

\* the player of startFight after initFromClass + syncCanonical
StartPlayer ==
    syncCanonical(initFromClass(HeroClass, Combatant(MaxHp, 3, 3, 3, 1)))

\* the encounters of the payload: the default slime (no _raw) and two catalog
\* enemies; the wolf carries a resource pool of its own
StartEnemy(id) ==
    LET base == [Combatant(MaxHp, 0, 2, 2, 1) EXCEPT !.raw = id] IN
    IF id = "wolf"
    THEN [base EXCEPT !.resources =
            [k \in {"mana"} |-> [current |-> 0, max |-> 2, regenPerTurn |-> 1,
                                 tiesToStat |-> None]]]
    ELSE base

EnemyIds == {"slime", "drake", "wolf"}

NoSkill == Skill("", "", "", <<>>)
IdleCur ==
    [entry |-> "", skill |-> NoSkill, i |-> 0, eskill |-> NoSkill,
     eturns0 |-> 0, ticks0 |-> 0, php0 |-> 0, ehpAfter |-> 0, cost |-> <<>>,
     done |-> <<>>, lines |-> <<>>]
NoOp == [name |-> "", key |-> "", amount |-> 0, map |-> NullMap, fallback |-> NoKey]
NoRet == [ok |-> FALSE, tag |-> ""]
\* used[id]: the enemy turn on which the catalog skill id was last resolved
CatalogSkillIds == {"fireball", "howl", "claw"}
Hist0 ==
    [calls |-> 0, regens |-> 0, eturns |-> 0, ticks |-> 0, last |-> "",
     used |-> [id \in CatalogSkillIds |-> 0]]
usedAt(h, id, t) ==
    IF id \in CatalogSkillIds THEN [h EXCEPT !.used[id] = t] ELSE h

InitScene(sc) ==
    /\ scene = sc
    /\ player = StartPlayer
    /\ \E id \in EnemyIds : enemy = StartEnemy(id)
    /\ turnLock = FALSE
    /\ turn = 1
    /\ _turn = 0
    /\ logs = [len |-> 1, last |-> "appears"]
    /\ pc = "idle"
    /\ cur = IdleCur
    /\ op = NoOp
    /\ ret = NoRet
    /\ hist = Hist0

Init == InitScene("cm") \/ InitScene("kdef")

\* _log(t): the log grows by the lines, the last one is the newest
Logged(l, lines) ==
    IF lines = <<>> THEN l
    ELSE [len |-> l.len + Len(lines), last |-> lines[Len(lines)]]

\* `if (this.turnLock) return;`
LockedMutant(lock) == FALSE

Locked(lock) == lock

releasedMutant(lock) == lock

\* `this.turnLock = false;`
released(lock) == FALSE

\* one more entry-point call observed
Called(name, id) ==
    /\ hist.calls < MaxCalls
    /\ op' = [NoOp EXCEPT !.name = name, !.key = id]

Frame == UNCHANGED <<scene>>

---------------------------------------------------------------------------
(* The K_DEF scene: useAbility / endTurn and the round they start *)

\* _normalizeAbility + _getAbilityCosts: the <<resource, amount>> pairs to pay
getAbilityCosts(ability) ==
    IF ability.cost.kind = "obj"
    THEN SelectSeq(ability.cost.entries, LAMBDA c : c[2] > 0)
    ELSE IF ability.cost.kind = "num" /\ ability.cost.n > 0
         THEN << <<IF ability.resource # NoKey THEN ability.resource ELSE "mana",
                   ability.cost.n>> >>
    ELSE <<>>

canUseAbilityMutant(p, ability) == TRUE

canUseAbility(p, ability) ==
    LET costs == getAbilityCosts(ability) IN
    \A i \in 1..Len(costs) : canSpend(p, costs[i][1], costs[i][2])

RECURSIVE spendAll(_, _)
spendAll(p, costs) ==
    IF costs = <<>> THEN p
    ELSE spendAll(IF Head(costs)[2] > 0 THEN spend(p, Head(costs)[1], Head(costs)[2])
                  ELSE p,
                  Tail(costs))

spendAbilityCost(p, ability) == spendAll(p, getAbilityCosts(ability))

\* render() keeps the pools of both combatants in sync with their stats
render(u) == syncCanonical(u)

\* the start of a round: what the round's accounting is measured against
RoundCur(entry, skill) ==
    [IdleCur EXCEPT !.entry = entry, !.skill = skill, !.i = 1,
                    !.eturns0 = hist.eturns, !.ticks0 = hist.ticks,
                    !.php0 = player.hp, !.ehpAfter = enemy.hp]

UseAbility(abilityId) ==
    /\ scene = "kdef"
    /\ Called("useAbility", abilityId)
    /\ LET bar == actionBar(scene) IN
       IF Locked(turnLock)
       THEN /\ ret' = [ok |-> FALSE, tag |-> "locked"]
            /\ hist' = [hist EXCEPT !.calls = @ + 1, !.last = "locked"]
            /\ UNCHANGED <<player, enemy, turnLock, turn, _turn, logs, pc, cur>>
       ELSE IF abilityId \notin SkillIds(bar)
       THEN /\ ret' = [ok |-> FALSE, tag |-> "unknown"]
            /\ hist' = [hist EXCEPT !.calls = @ + 1, !.last = "unknown"]
            /\ UNCHANGED <<player, enemy, turnLock, turn, _turn, logs, pc, cur>>
       ELSE IF ~canUseAbility(player, SkillById(bar, abilityId))
       THEN /\ ret' = [ok |-> FALSE, tag |-> "rejected"]
            /\ hist' = [hist EXCEPT !.calls = @ + 1, !.last = "rejected"]
            /\ logs' = Logged(logs, <<"Not enough">>)
            /\ player' = render(player)
            /\ enemy' = render(enemy)
            /\ UNCHANGED <<turnLock, turn, _turn, pc, cur>>
       ELSE /\ ret' = [ok |-> TRUE, tag |-> "accepted"]
            /\ hist' = [hist EXCEPT !.calls = @ + 1, !.last = "accepted"]
            /\ turnLock' = TRUE
            /\ player' = render(spendAbilityCost(player, SkillById(bar, abilityId)))
            /\ enemy' = render(enemy)
            /\ logs' = Logged(logs, <<"uses">>)
            /\ pc' = "pfx"
            /\ cur' = RoundCur("useAbility", SkillById(bar, abilityId))
            /\ UNCHANGED <<turn, _turn>>
    /\ Frame

EndTurn ==
    /\ scene = "kdef"
    /\ Called("endTurn", "")
    /\ IF Locked(turnLock)
       THEN /\ ret' = [ok |-> FALSE, tag |-> "locked"]
            /\ hist' = [hist EXCEPT !.calls = @ + 1, !.last = "locked"]
            /\ UNCHANGED <<player, enemy, turnLock, turn, _turn, logs, pc, cur>>
       ELSE /\ ret' = [ok |-> TRUE, tag |-> "accepted"]
            /\ hist' = [hist EXCEPT !.calls = @ + 1, !.last = "accepted"]
            /\ turnLock' = TRUE
            /\ logs' = Logged(logs, <<"ends turn">>)
            /\ player' = render(player)
            /\ enemy' = render(enemy)
            /\ pc' = "eturn"
            /\ cur' = RoundCur("endTurn", NoSkill)
            /\ UNCHANGED <<turn, _turn>>
    /\ Frame

nextFxMutant(i) == i + 2

\* `for (const fx of effects)`: the position of the next effect
nextFx(i) == i + 1

\* _applySkillEffects(p, e, ability): one effect, render, then the pacing delay
KPlayerEffect ==
    /\ scene = "kdef" /\ pc = "pfx"
    /\ cur.i <= Len(cur.skill.effects)
    /\ hist' = [hist EXCEPT !.last = "pfx"]
    /\ UNCHANGED <<turnLock, turn, _turn, pc, op, ret>>
    /\ LET fx == cur.skill.effects[cur.i] IN
       \E roll \in fx.min..fx.max, v \in VarianceDraws, crit \in BOOLEAN :
         \E out \in {applySkillEffect(player, enemy, fx, roll, v, crit)} :
         /\ player' = render(out[1])
         /\ enemy' = render(out[2])
         /\ logs' = Logged(logs, out[3])
         /\ cur' = [cur EXCEPT !.i = nextFx(@), !.ehpAfter = out[2].hp,
                              !.done = Append(@, fx), !.lines = @ \o out[3]]
    /\ Frame

\* back in useAbility: the defeat check after the player's effects
KAfterEffects ==
    /\ scene = "kdef" /\ pc = "pfx"
    /\ cur.i > Len(cur.skill.effects)
    /\ IF enemy.hp <= 0
       THEN /\ logs' = Logged(logs, <<"defeated">>)
            /\ turnLock' = released(turnLock)
            /\ pc' = "idle"
            /\ hist' = [hist EXCEPT !.last = "victory"]
       ELSE /\ pc' = "sleep"
            /\ hist' = [hist EXCEPT !.last = "pdone"]
            /\ UNCHANGED <<logs, turnLock>>
    /\ player' = render(player)
    /\ enemy' = render(enemy)
    /\ UNCHANGED <<turn, _turn, cur, op, ret>>
    /\ Frame

\* await this._sleep(400)
Sleep ==
    /\ pc = "sleep"
    /\ pc' = "eturn"
    /\ hist' = [hist EXCEPT !.last = "sleep"]
    /\ UNCHANGED <<player, enemy, turnLock, turn, _turn, logs, cur, op, ret>>
    /\ Frame

\* the hit roll of the K_DEF _enemyTurn: Math.random() (in percent) against
\* finalHit = clamp(baseHit * (1 - evasionPct / 100), 0, 1)
HitDraws == {0, 50, 99}
enemyMisses(skill, target, rnd) ==
    LET baseHit == IF skill.hitChance # None THEN skill.hitChance[1] ELSE 100
        finalHit == clampValue(baseHit * (100 - target.evasionPct), 0, 100 * 100)
    IN rnd * 100 > finalHit

\* _enemyTurn up to its first effect: guard, cooldown tick, selection, hit roll
KEnemyTurn ==
    /\ scene = "kdef" /\ pc = "eturn"
    /\ IF player.hp <= 0
       THEN /\ pc' = "rend"
            /\ hist' = [hist EXCEPT !.last = "eskip"]
            /\ UNCHANGED <<player, enemy, _turn, logs, cur>>
       ELSE LET t == IF _turn = 0 THEN 1 ELSE _turn
                e1 == tickCooldowns(enemy)
                id == selectEnemySkill(e1, t)
                skill == mkEnemySkill(e1, id, FallbackK)
            IN \E rnd \in HitDraws :
                 /\ hist' = [hist EXCEPT !.eturns = @ + 1, !.ticks = @ + 1,
                                         !.last = "eturn"]
                 /\ enemy' = render(e1)
                 /\ player' = render(player)
                 /\ IF enemyMisses(skill, player, rnd)
                    THEN /\ logs' = Logged(logs, <<"enemy misses">>)
                         /\ _turn' = t + 1
                         /\ pc' = "rend"
                         /\ cur' = [cur EXCEPT !.eskill = skill, !.i = 1,
                                              !.done = <<>>, !.lines = <<>>]
                    ELSE /\ logs' = Logged(logs, <<"enemy uses">>)
                         /\ _turn' = t
                         /\ pc' = "efx"
                         /\ cur' = [cur EXCEPT !.eskill = skill, !.i = 1,
                                              !.done = <<>>, !.lines = <<>>]
    /\ UNCHANGED <<turnLock, turn, op, ret>>
    /\ Frame

\* _applySkillEffects(e, p, skill): one effect, render, then the pacing delay
KEnemyEffect ==
    /\ scene = "kdef" /\ pc = "efx"
    /\ cur.i <= Len(cur.eskill.effects)
    /\ hist' = [hist EXCEPT !.last = "efx"]
    /\ UNCHANGED <<turnLock, turn, _turn, pc, op, ret>>
    /\ LET fx == cur.eskill.effects[cur.i] IN
       \E roll \in fx.min..fx.max, v \in VarianceDraws, crit \in BOOLEAN :
         \E out \in {applySkillEffect(enemy, player, fx, roll, v, crit)} :
         /\ enemy' = render(out[1])
         /\ player' = render(out[2])
         /\ logs' = Logged(logs, out[3])
         /\ cur' = [cur EXCEPT !.i = nextFx(@), !.done = Append(@, fx),
                              !.lines = @ \o out[3]]
    /\ Frame

\* the tail of _enemyTurn: start the cooldown, report a fallen player, _turn++
KEnemyTurnEnd ==
    /\ scene = "kdef" /\ pc = "efx"
    /\ cur.i > Len(cur.eskill.effects)
    /\ pc' = "rend"
    /\ hist' = usedAt([hist EXCEPT !.last = "eend"], cur.eskill.id, hist.eturns)
    /\ enemy' = (IF player.hp <= 0 THEN render(startCooldown(enemy, cur.eskill.id))
                 ELSE startCooldown(enemy, cur.eskill.id))
    /\ player' = (IF player.hp <= 0 THEN render(player) ELSE player)
    /\ logs' = (IF player.hp <= 0 THEN Logged(logs, <<"fallen">>) ELSE logs)
    /\ _turn' = _turn + 1
    /\ UNCHANGED <<turnLock, turn, cur, op, ret>>
    /\ Frame

\* back in useAbility / endTurn: upkeep of the player, round counter, unlock
KRoundEnd ==
    /\ scene = "kdef" /\ pc = "rend"
    /\ turnLock' = released(turnLock)
    /\ pc' = "idle"
    /\ IF player.hp > 0
       THEN /\ turn' = turn + 1
            /\ hist' = [hist EXCEPT !.regens = @ + 1, !.last = "rend"]
            /\ \E p \in {regenTurn(player)} : player' = render(p)
       ELSE /\ turn' = turn
            /\ hist' = [hist EXCEPT !.last = "rend"]
            /\ player' = render(player)
    /\ enemy' = render(enemy)
    /\ UNCHANGED <<_turn, logs, cur, op, ret>>
    /\ Frame

---------------------------------------------------------------------------
(* The scene wired to combatManager.js: useSkill and the round it starts *)

\* the d100 draws of computeHit worth telling apart
D100Draws == {1, 70, 71, 100}

\* the attack branch shared by useSkill and _enemyTurn: <<attacker, defender, lines>>
resolveWith(attacker, defender, skill, ability, d100) ==
    IF ability = None
    THEN applyNonDamageEffect(attacker, defender, skill.effects)
    ELSE LET result == resolveAttack(attacker, defender, ability[1], d100, 0) IN
         IF result.ok /\ result.hit
         THEN <<attacker, [defender EXCEPT !.hp = Max2(0, defender.hp - result.damage)],
                <<"takes damage">> >>
         ELSE IF result.ok THEN <<attacker, defender, <<"misses">> >>
         ELSE <<attacker, defender, <<"cannot use">> >>

resolveInto(attacker, defender, skill, roll, d100, withElement) ==
    resolveWith(attacker, defender, skill,
                abilityFromSkill(attacker, skill, roll, withElement), d100)

\* the damage_roll range of a skill (1..1 when it rolls nothing)
RollRange(skill) ==
    LET dmgRoll == FirstFx(skill, "damage_roll") IN
    IF dmgRoll = None THEN {1} ELSE dmgRoll[1].min..dmgRoll[1].max

\* useSkill(skill) up to `await this._sleep(400)` (or an earlier return)
UseSkill(id) ==
    /\ scene = "cm"
    /\ Called("useSkill", id)
    /\ LET skill == SkillById(actionBar(scene), id)
           costResult == applyResourceCostRet(player, skill.cost, skill.resource)
           paid == applyResourceCost(player, skill.cost, skill.resource)
       IN
       IF Locked(turnLock)
       THEN /\ ret' = [ok |-> FALSE, tag |-> "locked"]
            /\ hist' = [hist EXCEPT !.calls = @ + 1, !.last = "locked"]
            /\ UNCHANGED <<player, enemy, turnLock, turn, _turn, logs, pc, cur>>
       ELSE IF ~costResult.ok
       THEN /\ ret' = [ok |-> FALSE, tag |-> "rejected"]
            /\ hist' = [hist EXCEPT !.calls = @ + 1, !.last = "rejected"]
            /\ logs' = Logged(logs, <<"Not enough">>)
            /\ player' = paid
            /\ turnLock' = released(turnLock)
            /\ UNCHANGED <<enemy, turn, _turn, pc, cur>>
       ELSE \E roll \in RollRange(skill), d100 \in D100Draws :
            LET out == resolveInto(paid, enemy, skill, roll, d100, TRUE)
                undone == IF out[3] = <<"cannot use">>
                          THEN adjustAll(out[1], costResult.entries, 1)
                          ELSE applyResourceGain(
                                 applyResourceGain(out[1], skill.refund, skill.resource),
                                 skill.restore, skill.resource)
            IN /\ ret' = [ok |-> TRUE, tag |-> "accepted"]
               /\ player' = undone
               /\ enemy' = out[2]
               /\ cur' = [RoundCur("useSkill", skill) EXCEPT
                            !.ehpAfter = out[2].hp, !.cost = costResult.entries,
                            !.lines = out[3]]
               /\ IF out[2].hp <= 0
                  THEN /\ logs' = Logged(logs, <<"uses">> \o out[3] \o <<"defeated">>)
                       /\ turnLock' = released(turnLock)
                       /\ pc' = "idle"
                       /\ hist' = [hist EXCEPT !.calls = @ + 1, !.last = "victory"]
                  ELSE /\ logs' = Logged(logs, <<"uses">> \o out[3])
                       /\ turnLock' = TRUE
                       /\ pc' = "sleep"
                       /\ hist' = [hist EXCEPT !.calls = @ + 1, !.last = "accepted"]
               /\ UNCHANGED <<turn, _turn>>
    /\ Frame

\* _enemyTurn() and the tail of useSkill: nothing in them suspends on a timer
CMEnemyTurn ==
    /\ scene = "cm" /\ pc = "eturn"
    /\ turnLock' = released(turnLock)
    /\ pc' = "idle"
    /\ IF player.hp <= 0
       THEN /\ hist' = [hist EXCEPT !.last = "eskip"]
            /\ UNCHANGED <<player, enemy, _turn, logs, cur>>
       ELSE LET t == IF _turn = 0 THEN 1 ELSE _turn IN
            \E e1 \in {tickCooldowns(enemy)} :
            \E skill \in {mkEnemySkill(e1, selectEnemySkill(e1, t), FallbackCM)} :
            \E roll \in RollRange(skill), d100 \in D100Draws :
            \E ability \in {abilityFromSkill(e1, skill, roll, FALSE)} :
            \E out \in {resolveWith(e1, player, skill, ability, d100)} :
               /\ enemy' = startCooldown(out[1], skill.id)
               /\ player' = out[2]
               /\ logs' = Logged(logs, <<"enemy uses">> \o out[3] \o
                                   (IF out[2].hp <= 0 THEN <<"fallen">> ELSE <<>>))
               /\ _turn' = t + 1
               /\ cur' = [cur EXCEPT !.eskill = skill]
               /\ hist' = usedAt([hist EXCEPT !.eturns = @ + 1, !.ticks = @ + 1,
                                              !.last = "eturn"],
                                 skill.id, hist.eturns + 1)
    /\ UNCHANGED <<turn, op, ret>>
    /\ Frame

Next ==
    \/ \E id \in SkillIds(actionBar("kdef")) \cup {"nope"} : UseAbility(id)
    \/ EndTurn
    \/ KPlayerEffect
    \/ KAfterEffects
    \/ Sleep
    \/ KEnemyTurn
    \/ KEnemyEffect
    \/ KEnemyTurnEnd
    \/ KRoundEnd
    \/ \E id \in SkillIds(actionBar("cm")) : UseSkill(id)
    \/ CMEnemyTurn

Spec == Init /\ [][Next]_vars

\* The steps a round in flight takes by itself: resumptions after an await
\* (the pacing delays of _sleep and the async helpers). The calls of the
\* entry points are the player's and may never come.
Resume ==
    \/ KPlayerEffect
    \/ KAfterEffects
    \/ Sleep
    \/ KEnemyTurn
    \/ KEnemyEffect
    \/ KEnemyTurnEnd
    \/ KRoundEnd
    \/ CMEnemyTurn

\* the encounter against the drake (two skills, a cooldown, a hit chance that
\* lets it miss), in either scene
InitLive == Init /\ enemy.raw = "drake"

\* every pacing delay elapses: a timer that was set fires, a resolved promise
\* is resumed
SpecLive == InitLive /\ [][Next]_vars /\ WF_vars(Resume)

---------------------------------------------------------------------------
(* Direct use of the resourceManager.js API on one combatant *)

\* keys a caller may name: aliases, canonical names, a pool nobody has, none
PoolKeys == {"mp", "mana", "sp", "rage"}
\* amounts: zero, small, the size of a pool, larger than any pool
Amounts == 0..(MaxAmt + 1)
Deltas == {0 - (MaxAmt + 1), -1, 1, MaxAmt + 1}

\* the <<map, fallbackKey>> arguments of a cost: null, bare numbers under each
\* fallback, one-entry maps, two-entry maps, and a map that names mana twice
CostCalls ==
    {<<NullMap, NoKey>>}
      \cup {<<NumMap(n), fb>> : n \in {-1, 1, MaxAmt}, fb \in {NoKey, "mp", "sp"}}
      \cup {<<ObjMap(<< <<k, a>> >>), NoKey>> : k \in {"mp", "rage"}, a \in {0, MaxAmt + 1}}
      \cup {<<ObjMap(<< <<"sp", a>>, <<k, b>> >>), NoKey>> :
              k \in {"mana", "stamina", "rage"}, a \in {1, 2}, b \in {-1, 2, MaxAmt}}
      \cup {<<ObjMap(<< <<"mp", a>>, <<"mana", b>>, <<"sp", 1>> >>), NoKey>> :
              a \in {1, 2}, b \in {1, 2}}
GainCalls ==
    {<<NumMap(n), fb>> : n \in {1, MaxAmt + 1}, fb \in {"mp", "sp"}}
      \cup {<<ObjMap(<< <<"sp", 1>>, <<"mana", 2>>, <<"rage", 1>> >>), NoKey>>,
            <<ObjMap(<< <<"fury", 2>> >>), NoKey>>}

InitRes ==
    /\ scene = "res"
    /\ player = StartPlayer
    /\ enemy = StartEnemy("slime")
    /\ turnLock = FALSE
    /\ turn = 1
    /\ _turn = 0
    /\ logs = [len |-> 0, last |-> ""]
    /\ pc = "idle"
    /\ cur = IdleCur
    /\ op = NoOp
    /\ ret = NoRet
    /\ hist = Hist0

ResFrame == UNCHANGED <<enemy, turnLock, turn, _turn, logs, pc, cur, hist, scene>>

Spend(key, amount) ==
    /\ scene = "res"
    /\ op' = [NoOp EXCEPT !.name = "spend", !.key = key, !.amount = amount]
    /\ ret' = [ok |-> spendOk(player, key, amount), tag |-> "spend"]
    /\ player' = spend(player, key, amount)
    /\ ResFrame

CanSpend(key, amount) ==
    /\ scene = "res"
    /\ op' = [NoOp EXCEPT !.name = "canSpend", !.key = key, !.amount = amount]
    /\ ret' = [ok |-> canSpend(player, key, amount), tag |-> "canSpend"]
    /\ player' = player
    /\ ResFrame

ApplyResourceCost(map, fallbackKey) ==
    /\ scene = "res"
    /\ op' = [NoOp EXCEPT !.name = "applyResourceCost", !.map = map,
                          !.fallback = fallbackKey]
    /\ ret' = [ok |-> applyResourceCostRet(player, map, fallbackKey).ok, tag |-> "cost",
                missing |-> applyResourceCostRet(player, map, fallbackKey).missing,
                entries |-> applyResourceCostRet(player, map, fallbackKey).entries,
                before |-> player]
    /\ player' = applyResourceCost(player, map, fallbackKey)
    /\ ResFrame

ApplyResourceGain(map, fallbackKey) ==
    /\ scene = "res"
    /\ op' = [NoOp EXCEPT !.name = "applyResourceGain", !.map = map,
                          !.fallback = fallbackKey]
    /\ ret' = [ok |-> TRUE, tag |-> "gain"]
    /\ player' = applyResourceGain(player, map, fallbackKey)
    /\ ResFrame

\* the array of {key, amount} entries a cost call returned, passed as a map
EntriesMap(entries) ==
    ObjMap([i \in 1..Len(entries) |-> <<entries[i].key, entries[i].amount>>])

\* the undo of useSkill: applyResourceGain(p, costEntries) right after a
\* successful applyResourceCost
UndoCost ==
    /\ scene = "res"
    /\ ret.tag = "cost" /\ ret.ok
    /\ op' = [op EXCEPT !.name = "undoCost"]
    /\ ret' = [ok |-> TRUE, tag |-> "undo", before |-> ret.before]
    /\ player' = applyResourceGain(player, EntriesMap(ret.entries), NoKey)
    /\ ResFrame

AdjustResource(key, delta) ==
    /\ scene = "res"
    /\ op' = [NoOp EXCEPT !.name = "adjustResource", !.key = key, !.amount = delta]
    /\ ret' = [ok |-> adjustResourceDelta(player, key, delta) # None, tag |-> "adjust"]
    /\ player' = adjustResource(player, key, delta)
    /\ ResFrame

RegenTurn ==
    /\ scene = "res"
    /\ op' = [NoOp EXCEPT !.name = "regenTurn"]
    /\ ret' = [ok |-> TRUE, tag |-> "regen"]
    /\ player' = regenTurn(player)
    /\ ResFrame

SyncCanonical ==
    /\ scene = "res"
    /\ op' = [NoOp EXCEPT !.name = "syncCanonical"]
    /\ ret' = [ok |-> TRUE, tag |-> "sync"]
    /\ player' = syncCanonical(player)
    /\ ResFrame

\* a buff or debuff moves the stat a pool's max is tied to (no sync follows)
ApplyBuff(amount) ==
    /\ scene = "res"
    /\ player.spd + amount \in -1..MaxStat
    /\ op' = [NoOp EXCEPT !.name = "applyBuff", !.key = "spd", !.amount = amount]
    /\ ret' = [ok |-> TRUE, tag |-> "buff"]
    /\ player' = applyBuff(player, "spd", amount)
    /\ ResFrame

NextRes ==
    \/ \E key \in PoolKeys \cup {NoKey}, amount \in Amounts : Spend(key, amount)
    \/ \E key \in PoolKeys, amount \in Amounts : CanSpend(key, amount)
    \/ \E c \in CostCalls : ApplyResourceCost(c[1], c[2])
    \/ \E c \in GainCalls : ApplyResourceGain(c[1], c[2])
    \/ UndoCost
    \/ \E key \in PoolKeys \ {"mp"}, delta \in Deltas : AdjustResource(key, delta)
    \/ RegenTurn
    \/ SyncCanonical
    \/ \E amount \in {-1, 1} : ApplyBuff(amount)

SpecRes == InitRes /\ [][NextRes]_vars

---------------------------------------------------------------------------
(* The combat math called on its own: combatManager.js and the K_DEF math *)

\* a normalized actor with the given stats
Actor(accuracy, evasion, atk, def, resistPct) ==
    [fromCatalog(Combatant(1, 0, 0, 0, 0)) EXCEPT
        !.accuracy = accuracy, !.evasion = evasion, !.atk = atk, !.magAtk = atk,
        !.def = def, !.magRes = def,
        !.elementalRes = [el \in {"fire", "frost", "lightning", "poison"} |-> resistPct]]

\* the inputs tried: small, zero, negative and extreme values
Percents == {-20, 0, 50, 100, 150}
BigStats == {-200, -1, 0, 1, 200}
HitBases == {-50, 0, 70, 150}
RngDraws == {0, 1, 9, 10, 499, 949, 950, 990, 999}

CalcDamageCalls ==
    [name : {"_calcDamage"}, raw : {-2, 0, 1, 7}, def : 0..2, vuln : 0..MaxStat,
     k : {0, 1, K_DEF}, varFactor : VarianceDraws, didCrit : BOOLEAN]

ComputeDamageCalls ==
    [name : {"computeDamage"}, type : {"physical", "magic"}, base : {0, 3},
     variance : {0, 10}, r : {-100, 0, 99}, stat : {0, 4}, powerBonus : {-3, 0, 2},
     def : {0, 3, 50}, resistPct : Percents, magAtk : {0, 7}, magRes : {1},
     element : {"", "fire"}]

ComputeHitCalls ==
    [name : {"computeHit"}, base : HitBases, accuracy : BigStats,
     accuracyBonus : {0, 20}, evasion : BigStats, rng : RngDraws]

ApplyDamageCalls ==
    [name : {"_applyDamage"}, shield : 0..5, hp : 0..(MaxHp + 1), amount : 1..8]

\* (rng() * 2 - 1) in hundredths: where in [-span, +span] a variance draw lands
SpanDraws == {-100, 0, 99}

\* options.rng is a stream: `roll` is the d100 of its first value, `next` its
\* second value as a variance draw
ResolveAttackCalls ==
    [name : {"resolveAttack"}, mp : 0..2, mpCost : 0..MaxAmt, variance : {0, 10},
     base : {1, 10}, roll : D100Draws, next : SpanDraws]

MitigationCalls ==
    [name : {"mitigation"}, raw : {1, 7}, defA : 0..MaxStat, defB : 0..MaxStat,
     vuln : 0..(MaxStat + 1), k : {1, K_DEF}]

InitMath ==
    /\ scene = "math"
    /\ player = StartPlayer
    /\ enemy = StartEnemy("slime")
    /\ turnLock = FALSE
    /\ turn = 1
    /\ _turn = 0
    /\ logs = [len |-> 0, last |-> ""]
    /\ pc = "idle"
    /\ cur = IdleCur
    /\ op \in CalcDamageCalls \cup ComputeDamageCalls \cup ComputeHitCalls
               \cup ApplyDamageCalls \cup ResolveAttackCalls \cup MitigationCalls
    /\ ret = [name |-> ""]
    /\ hist = Hist0

MathFrame ==
    UNCHANGED <<player, enemy, turnLock, turn, _turn, logs, pc, cur, hist, scene, op>>

\* the call drawn at the start has not been made yet
Pending(name) == scene = "math" /\ op.name = name /\ ret.name = ""

\* this._calcDamage(raw, target) in a scene whose payload gave K_DEF = k
CalcDamage ==
    /\ Pending("_calcDamage")
    /\ ret' = [name |-> "_calcDamage",
               final |-> calcDamageK(op.raw, 1,
                                     [Combatant(1, 0, 0, 0, op.def) EXCEPT !.vuln = op.vuln],
                                     op.k, op.varFactor, op.didCrit)]
    /\ MathFrame

\* computeDamage(attacker, defender, ability).total; r is the variance draw
ComputeDamage ==
    /\ Pending("computeDamage")
    /\ ret' = [name |-> "computeDamage",
               final |-> Num(computeDamage(
                          [Actor(0, 0, op.stat, 0, 0) EXCEPT !.magAtk = op.magAtk],
                          [Actor(0, 0, 0, op.def, op.resistPct) EXCEPT !.magRes = op.magRes],
                          Ability(op.type, op.base, op.variance, op.powerBonus, 1,
                                  op.element),
                          op.r))]
    /\ MathFrame

\* computeHit(attacker, defender, ability, config) for an rng draw (thousandths)
ComputeHit ==
    /\ Pending("computeHit")
    /\ LET atk == Actor(op.accuracy, 0, 0, 0, 0)
           def == Actor(0, op.evasion, 0, 0, 0)
           ability == [Ability("physical", 0, 0, 0, 1, "") EXCEPT
                         !.accuracyBonus = op.accuracyBonus]
           chance == hitChanceCfg(op.base, atk, def, ability)
           roll == rollD100(op.rng)
       IN ret' = [name |-> "computeHit", chance |-> chance, roll |-> roll,
                  hit |-> computeHitCfg(op.base, atk, def, ability, roll)]
    /\ MathFrame

\* this._applyDamage(target, amount) on a target with the given shield and HP
ApplyDamage ==
    /\ Pending("_applyDamage")
    /\ LET target == [Combatant(op.hp, 0, 0, 0, 0) EXCEPT !.shield = op.shield]
           after == applyDamage(target, op.amount)
       IN ret' = [name |-> "_applyDamage", shield |-> after.shield, hp |-> after.hp,
                  lines |-> applyDamageLogs(target, op.amount)]
    /\ MathFrame

\* the arguments of a resolveAttack call: an attacker with stats.MP = mp and an
\* ability with the given mpCost and variance
AttackerOf(call) == [Combatant(MaxHp, 0, 2, 2, 1) EXCEPT !.stats = [MP |-> call.mp, ATK |-> 2]]
DefenderOf(call) == Combatant(MaxHp, 0, 2, 2, 1)
AbilityOf(call) ==
    [Ability("physical", call.base, call.variance, 0, 1, "") EXCEPT !.mpCost = call.mpCost]

\* resolveAttack({attacker, defender, ability, options}); computeDamage takes
\* its variance draw g from CombatDefaults.rng (Math.random), whatever rng
\* the options carry
ResolveAttack ==
    /\ Pending("resolveAttack")
    /\ \E g \in SpanDraws :
         LET result == resolveAttack(AttackerOf(op), DefenderOf(op), AbilityOf(op), op.roll, g)
             after == resolveAttackArgs(AttackerOf(op), DefenderOf(op), AbilityOf(op),
                                        op.roll, g)
         IN ret' = [name |-> "resolveAttack", result |-> result,
                    attacker |-> after[1], defender |-> after[2], ability |-> after[3]]
    /\ MathFrame

\* the mitigation step of _calcDamage for one raw value against two defenses
Mitigation ==
    /\ Pending("mitigation")
    /\ LET a == [Combatant(1, 0, 0, 0, op.defA) EXCEPT !.vuln = op.vuln]
           b == [Combatant(1, 0, 0, 0, op.defB) EXCEPT !.vuln = op.vuln]
       IN ret' = [name |-> "mitigation",
                  effA |-> effectiveDef(a), effB |-> effectiveDef(b),
                  multA |-> mitigationMult(a, op.k), multB |-> mitigationMult(b, op.k),
                  mitA |-> afterMitigation(op.raw, 1, a, op.k),
                  mitB |-> afterMitigation(op.raw, 1, b, op.k)]
    /\ MathFrame

NextMath ==
    \/ CalcDamage
    \/ ComputeDamage
    \/ ComputeHit
    \/ ApplyDamage
    \/ ResolveAttack
    \/ Mitigation

SpecMath == InitMath /\ [][NextMath]_vars

---------------------------------------------------------------------------
(* Properties of the resource pools (checked under SpecRes) *)

PoolsOf(p) == DOMAIN p.resources
CurrentOf(p, key) == IF key \in PoolsOf(p) THEN p.resources[key].current ELSE 0
SamePools(p, q) ==
    /\ PoolsOf(p) = PoolsOf(q)
    /\ \A k \in PoolsOf(p) : q.resources[k].current = p.resources[k].current

\* C1: every pool of the combatant built by initFromClass keeps
\* 0 <= current <= max after any sequence of spend, applyResourceCost,
\* applyResourceGain, adjustResource, regenTurn and syncCanonical calls,
\* whatever the amounts (also amounts larger than the pool).
C1_PoolsClamped ==
    \A k \in PoolsOf(player) :
        /\ 0 <= player.resources[k].current
        /\ player.resources[k].current <= player.resources[k].max

\* a gain larger than the pool was applied and the pool stopped at its max
C1_Witness ==
    /\ op.name = "adjustResource" /\ op.key = "mana" /\ op.amount = MaxAmt + 1
    /\ ret.ok
    /\ player.resources["mana"].max > 0
    /\ player.resources["mana"].current = player.resources["mana"].max

\* the keyed entries a cost call names: <<rawKey, amount>>
CostEntries(map, fallbackKey) ==
    IF map.kind = "num" THEN << <<fallbackKey, map.n>> >>
    ELSE IF map.kind = "obj" THEN map.entries
    ELSE <<>>

\* an entry that asks for something and cannot be paid from its pool
Unaffordable(p, entry) ==
    LET key == normalizeResourceKey(entry[1]) IN
    /\ entry[2] > 0
    /\ key # NoKey
    /\ (key \notin PoolsOf(p) \/ CurrentOf(p, key) < entry[2])

\* the total a list of entries asks of the pool `key`
RECURSIVE AskedOf(_, _)
AskedOf(entries, key) ==
    IF entries = <<>> THEN 0
    ELSE (IF normalizeResourceKey(Head(entries)[1]) = key /\ Head(entries)[2] > 0
          THEN Head(entries)[2] ELSE 0) + AskedOf(Tail(entries), key)

\* C2: applyResourceCost is all-or-nothing. If at least one entry of the
\* cost is unaffordable (its pool is missing or holds less than the amount)
\* the call reports ok = false; whenever it reports ok = false no pool's
\* current value changes (also the pools whose own entry was affordable);
\* whenever it reports ok = true every entry has been deducted.
C2_AllOrNothing ==
    [][op'.name = "applyResourceCost" =>
         LET entries == CostEntries(op'.map, op'.fallback) IN
         /\ (\E i \in 1..Len(entries) : Unaffordable(player, entries[i])) => ~ret'.ok
         /\ ~ret'.ok => SamePools(player, player')
         /\ ret'.ok =>
              /\ PoolsOf(player') = PoolsOf(player)
              /\ \A k \in PoolsOf(player) :
                   CurrentOf(player', k) = CurrentOf(player, k) - AskedOf(entries, k)]_vars

\* a two-resource cost was refused although its first entry was affordable
C2_Witness ==
    /\ op.name = "applyResourceCost"
    /\ op.map = ObjMap(<< <<"sp", 1>>, <<"mana", MaxAmt>> >>)
    /\ ~ret.ok
    /\ CurrentOf(player, "stamina") >= 1
    /\ CurrentOf(player, "mana") < MaxAmt

\* C3: spend(player, key, amount) returns true and lowers the pool's current
\* by exactly amount when the pool exists and current >= amount; otherwise
\* (amount > current, or no such pool) it returns false and leaves every
\* pool unchanged. canSpend is true in exactly the first case.
C3_SpendContract ==
    [][LET key == normalizeResourceKey(op'.key)
           payable == /\ key # NoKey
                      /\ key \in PoolsOf(player)
                      /\ CurrentOf(player, key) >= op'.amount
       IN /\ op'.name = "spend" =>
               IF payable
               THEN /\ ret'.ok
                    /\ PoolsOf(player') = PoolsOf(player)
                    /\ \A k \in PoolsOf(player) :
                         CurrentOf(player', k) =
                           CurrentOf(player, k) - (IF k = key THEN op'.amount ELSE 0)
               ELSE ~ret'.ok /\ SamePools(player, player')
          /\ op'.name = "canSpend" => (ret'.ok <=> payable) /\ player' = player]_vars

\* a spend larger than the pool's current was refused
C3_Witness ==
    /\ op.name = "spend" /\ op.key = "mp" /\ op.amount = MaxAmt + 1
    /\ ~ret.ok
    /\ CurrentOf(player, "mana") > 0

---------------------------------------------------------------------------
(* Properties of the two battle scenes (checked under Spec) *)

\* one of the entry points (useSkill, useAbility, endTurn) is called in this step
IsCall == hist'.calls # hist.calls
\* a round is in flight: its lock was taken and not yet released
InFlight == pc # "idle"
\* the enemy takes its turn in this step (tick, selection, use)
EnemyActs == hist'.eturns # hist.eturns

\* HP, shield, stats, resource pools and cooldowns of a combatant are the same
SameCombat(u, v) ==
    /\ v.hp = u.hp /\ v.hpMax = u.hpMax /\ v.shield = u.shield
    /\ v.atk = u.atk /\ v.mag = u.mag /\ v.def = u.def /\ v.spd = u.spd
    /\ v.vuln = u.vuln /\ v.evasionPct = u.evasionPct
    /\ v.resources = u.resources
    /\ v.cds = u.cds

\* C4: while a round started by useSkill or by useAbility / endTurn is in
\* flight (from the lock's acquisition through every pacing delay to its
\* release) a further call to an entry point returns at once: it is not
\* queued and changes no HP, shield, stat, pool, cooldown, turn counter or
\* log line.
C4_TurnLock ==
    [][(InFlight /\ IsCall) =>
         /\ SameCombat(player, player') /\ SameCombat(enemy, enemy')
         /\ UNCHANGED <<turnLock, turn, _turn, logs, pc, cur>>]_vars

\* a call arrived during the pacing delay of a round and was dropped
C4_Witness ==
    /\ pc = "sleep" /\ turnLock
    /\ hist.last = "locked"
    /\ op.name \in {"useSkill", "useAbility", "endTurn"}

\* C5: once either combatant's HP has reached 0 the encounter is terminal:
\* a later call of an entry point is granted no turn and changes neither
\* combatant's HP, shield, stats, pools or cooldowns.
C5_Terminal ==
    [][(IsCall /\ ~InFlight /\ (player.hp <= 0 \/ enemy.hp <= 0)) =>
         /\ SameCombat(player, player') /\ SameCombat(enemy, enemy')
         /\ pc' = "idle"]_vars

\* a round ends in this step: the lock is released
RoundDone ==
    \/ InFlight /\ pc' = "idle"
    \/ IsCall /\ ~InFlight /\ ret'.ok /\ pc' = "idle"

\* C6: in one round the enemy turn runs if and only if the enemy's HP is
\* above 0 after the player's effects resolved. At 0 HP no enemy skill is
\* selected, no cooldown ticks, the player's HP is unchanged, the defeat
\* line is logged and the lock is released; otherwise exactly one enemy
\* turn runs before the lock is released.
C6_VictoryShortCircuit ==
    [][RoundDone =>
         /\ ~turnLock'
         /\ IF cur'.ehpAfter > 0
            THEN hist'.eturns = cur'.eturns0 + 1
            ELSE /\ hist'.eturns = cur'.eturns0
                 /\ hist'.ticks = cur'.ticks0
                 /\ player'.hp = cur'.php0
                 /\ logs'.last = "defeated"]_vars

\* the attempted skill has a cost entry the player cannot pay
CannotPay(p, skill) ==
    LET entries == CostEntries(skill.cost, skill.resource) IN
    \E i \in 1..Len(entries) : Unaffordable(p, entries[i])

KRoundCloses == pc = "rend" /\ pc' = "idle"

\* C8: in the K_DEF scene regenTurn(player) runs exactly once per completed
\* round, after the enemy turn and only if the player's HP is above 0, and
\* `turn` grows by exactly 1 in that same step; neither happens on the
\* victory short-circuit or on a rejected action, and the enemy's pools are
\* never regenerated.
C8_RoundAccounting ==
    [][scene = "kdef" =>
         /\ (KRoundCloses /\ player.hp > 0) =>
              /\ turn' = turn + 1
              /\ hist'.regens = hist.regens + 1
              /\ hist.eturns = cur.eturns0 + 1
              /\ \A k \in PoolsOf(player) :
                   CurrentOf(player', k) =
                     Min2(player.resources[k].max,
                          CurrentOf(player, k) + player.resources[k].regenPerTurn)
         /\ (\/ turn' # turn
             \/ hist'.regens # hist.regens
             \/ \E k \in PoolsOf(player) : CurrentOf(player', k) > CurrentOf(player, k))
              => (KRoundCloses /\ player.hp > 0)
         /\ enemy'.resources = enemy.resources]_vars

\* a round that spent mana on bolt was completed and the upkeep gave 1 back
C8_Witness ==
    /\ scene = "kdef" /\ hist.last = "rend" /\ pc = "idle"
    /\ turn = 2 /\ hist.regens = 1
    /\ op.key = "bolt" /\ CurrentOf(player, "mana") = 1
    /\ player.hp > 0

\* the counter of a skill once this turn's decrement is done
AfterTick(e, id) == IF id \in DOMAIN e.cds THEN Max2(0, e.cds[id] - 1) ELSE 0
UsableNow(e, id) == id \in SkillIds(rawOf(e).skills) /\ AfterTick(e, id) = 0
HintList(hint) == IF hint = None THEN <<>> ELSE hint[1]
AnyUsableIn(e, ids) == \E i \in 1..Len(ids) : UsableNow(e, ids[i])
IsFirstUsableIn(e, ids, chosen) ==
    \E i \in 1..Len(ids) :
        /\ ids[i] = chosen /\ UsableNow(e, chosen)
        /\ \A j \in 1..(i - 1) : ~UsableNow(e, ids[j])
UsableAttack(e, sk) == sk.type = "attack" /\ UsableNow(e, sk.id)

\* C9: on every enemy turn the chosen skill is (1) the first usable opener
\* if this is the enemy's first turn of the encounter, even when a usable
\* priority skill exists; else (2) the first usable priority skill; else
\* (3) the first usable skill of type attack in declaration order; else
\* (4) the fallback enemy_attack. Openers are never chosen through (1) on a
\* later turn, and some skill is always chosen.
C9_SelectionCascade ==
    [][EnemyActs =>
         LET raw == rawOf(enemy)
             openers == HintList(raw.openers)
             priority == HintList(raw.priority)
             chosen == cur'.eskill.id
         IN IF hist.eturns = 0 /\ AnyUsableIn(enemy, openers)
            THEN IsFirstUsableIn(enemy, openers, chosen)
            ELSE IF AnyUsableIn(enemy, priority)
            THEN IsFirstUsableIn(enemy, priority, chosen)
            ELSE IF \E i \in 1..Len(raw.skills) : UsableAttack(enemy, raw.skills[i])
            THEN \E i \in 1..Len(raw.skills) :
                    /\ raw.skills[i].id = chosen
                    /\ UsableAttack(enemy, raw.skills[i])
                    /\ \A j \in 1..(i - 1) : ~UsableAttack(enemy, raw.skills[j])
            ELSE chosen = "enemy_attack"]_vars

\* the drake opened with fireball although its priority skill howl was usable
C9_Witness ==
    /\ enemy.raw = "drake" /\ hist.eturns = 1
    /\ cur.eskill.id = "fireball"
    /\ cdLeft(enemy, "howl") = 0

\* the enemy finishes resolving its chosen skill in this step
EnemyResolved ==
    \/ scene = "cm" /\ EnemyActs
    \/ scene = "kdef" /\ pc = "efx" /\ pc' = "rend"
DeclaresCooldown(e, id) ==
    /\ id \in SkillIds(rawOf(e).skills)
    /\ SkillById(rawOf(e).skills, id).cooldown # None

---------------------------------------------------------------------------
(* Properties of the combat math (checked under SpecMath) *)

Returned(name) == scene = "math" /\ ret.name = name

\* C11 (damage floor): every successful hit's final damage is a number that
\* is at least 1, for computeDamage (any base, stats, powerBonus, defense and
\* resist up to 100%) and for _calcDamage (any raw, def, vuln, variance, crit
\* and any K_DEF the scene accepts from the payload, 0 included).
C11_DamageFloor ==
    (Returned("_calcDamage") \/ Returned("computeDamage"))
        => (~ret.final.nan /\ ret.final.n >= 1)

\* C12 (hit-chance bounds): computeHit's chance lies in [5, 95] whatever the
\* base hit chance, accuracy, accuracy bonus and evasion; the roll is an
\* integer in [1, 100]; the attack hits exactly when roll <= chance; so the
\* lowest roll always hits and the highest roll always misses.
C12_HitChanceBounds ==
    Returned("computeHit") =>
        /\ ret.chance \in 5..95
        /\ ret.roll \in 1..100
        /\ ret.hit <=> (ret.roll <= ret.chance)
        /\ ret.roll = 1 => ret.hit
        /\ ret.roll = 100 => ~ret.hit

\* a hit on the lowest roll although accuracy minus evasion is far below zero
C12_Witness ==
    /\ Returned("computeHit")
    /\ op.base + op.accuracy + op.accuracyBonus - op.evasion < 0
    /\ ret.chance = 5 /\ ret.roll = 1 /\ ret.hit

\* C13 (shield absorption): _applyDamage on a target with shield s > 0 and
\* damage d >= 1 leaves shield s - min(s, d) and HP max(0, hp - (d - min(s, d)));
\* HP is untouched when d <= s.
C13_ShieldAbsorbs ==
    (Returned("_applyDamage") /\ op.shield > 0) =>
        /\ ret.shield = op.shield - Min2(op.shield, op.amount)
        /\ ret.hp = Max2(0, op.hp - (op.amount - Min2(op.shield, op.amount)))
        /\ op.amount <= op.shield => ret.hp = op.hp

\* shield 5 and damage 8: the shield is gone and HP is down by 3
C13_Witness ==
    /\ Returned("_applyDamage")
    /\ op.shield = 5 /\ op.amount = 8 /\ op.hp = 4
    /\ ret.shield = 0 /\ ret.hp = 1

\* C15 (affordability gate): when the ability's mpCost exceeds the normalized
\* attacker's resources.mp, resolveAttack returns ok = false with reason
\* INSUFFICIENT_RESOURCE, draws nothing from the rng, computes no hit and no
\* damage, and changes nothing.
C15_AffordabilityGate ==
    (Returned("resolveAttack") /\ op.mpCost > op.mp) =>
        /\ ~ret.result.ok
        /\ ret.result.reason = "INSUFFICIENT_RESOURCE"
        /\ ret.result.draws = 0
        /\ ~ret.result.hit /\ ret.result.damage = 0
        /\ ret.attacker = AttackerOf(op)
        /\ ret.defender = DefenderOf(op)
        /\ ret.ability = AbilityOf(op)

\* an attack that would have hit, turned down for one missing point of MP
C15_Witness ==
    /\ Returned("resolveAttack")
    /\ op.mpCost = op.mp + 1 /\ op.roll = 1
    /\ ~ret.result.ok

C20_SoftCap ==
    Returned("mitigation") =>
        /\ ret.effA = Max2(0, op.defA - op.vuln)
        /\ ret.multA[1] > 0 /\ ret.multA[1] <= ret.multA[2]
        /\ ret.multA[1] * (ret.effA + op.k) = op.k * ret.multA[2]
        /\ ret.mitA[1] > 0 /\ ret.mitA[2] > 0
        /\ ret.effA < ret.effB => ret.mitA[1] * ret.mitB[2] > ret.mitB[1] * ret.mitA[2]
        /\ op.vuln > op.defA => ret.multA[1] = ret.multA[2]

\* a vuln above the one defense, and a larger defense that mitigates more
C20_Witness ==
    /\ Returned("mitigation")
    /\ op.vuln > op.defA /\ ret.effA = 0 /\ ret.effB > 0
    /\ ret.mitA[1] * ret.mitB[2] > ret.mitB[1] * ret.mitA[2]

---------------------------------------------------------------------------
(* Properties of the effect interpreters and of round completion (Spec) *)

InScene == scene \in {"kdef", "cm"}

\* C14 (HP bounds): 0 <= hp <= hpMax holds for both combatants after every
\* damage, damage_roll, heal and shield effect, across any sequence of
\* rounds.
C14_HpBounds ==
    InScene =>
        /\ player.hp \in 0..player.hpMax
        /\ enemy.hp \in 0..enemy.hpMax

\* a heal of 2 has just landed on a combatant that was at full HP
C14_Witness ==
    /\ scene = "kdef" /\ pc = "pfx"
    /\ cur.skill.id = "mend" /\ cur.i = 2
    /\ cur.skill.effects[1].kind = "heal"
    /\ enemy.hp = enemy.hpMax

\* _applySkillEffects is running: for the player's ability or the enemy's skill
InFxLoop == scene = "kdef" /\ pc \in {"pfx", "efx"}
LoopEffects == IF pc = "pfx" THEN cur.skill.effects ELSE cur.eskill.effects
\* this step applies one effect (a call arriving meanwhile is turned away)
FxStep == InFxLoop /\ ~IsCall /\ pc' = pc
\* this step returns from the loop
FxExit == InFxLoop /\ pc' # pc

\* C17 (effect ordering): _applySkillEffects applies the effects of a skill
\* strictly in their declared order, one per step (state change, render and
\* pacing delay of an effect come before the next effect starts), and the
\* loop is left only when every effect of the list was visited exactly once.
C17_EffectOrder ==
    [][/\ FxStep =>
            /\ Len(cur.done) < Len(LoopEffects)
            /\ cur'.done = Append(cur.done, LoopEffects[Len(cur.done) + 1])
       /\ FxExit => cur.done = LoopEffects]_vars

\* the three effects of mend were applied in order and the loop is over
C17_Witness ==
    /\ scene = "kdef" /\ pc = "sleep"
    /\ cur.skill.id = "mend"
    /\ Len(cur.done) = 3 /\ cur.done = cur.skill.effects
    /\ cur.lines = <<"recovers", "not implemented", "shield">>

\* the effect kinds the two interpreters have a case for
KnownKinds ==
    IF scene = "kdef"
    THEN {"damage", "damage_roll", "heal", "buff", "shield", "evasion", "vuln",
          "root", "slow", "taunt", "dot"}
    ELSE {"heal", "shield", "buff", "root", "vuln"}
HasUnknown(effects) == \E i \in 1..Len(effects) : effects[i].kind \notin KnownKinds
LinesOf(lines) == {lines[i] : i \in 1..Len(lines)}

\* C18 (unknown effect kind): for an effect whose kind the interpreter does
\* not know a 'not implemented' line is logged, no combatant state changes
\* for that effect, and the later effects of the list are still applied;
\* this in _applySkillEffects and in _applyNonDamageEffect.
C18_UnknownEffect ==
    [][/\ (FxStep /\ LoopEffects[Len(cur.done) + 1].kind \notin KnownKinds) =>
            /\ logs'.len = logs.len + 1 /\ logs'.last = "not implemented"
            /\ SameCombat(player, player') /\ SameCombat(enemy, enemy')
       /\ (FxExit /\ HasUnknown(LoopEffects)) =>
            /\ cur.done = LoopEffects
            /\ "not implemented" \in LinesOf(cur.lines)
       /\ (scene = "cm" /\ IsCall /\ ret'.ok /\ cur'.skill.id = "mend") =>
            /\ "not implemented" \in LinesOf(cur'.lines)
            /\ "shield" \in LinesOf(cur'.lines)
            /\ player'.shield = player.shield + 1]_vars

\* C19 (round completion): every player action that acquired the turn lock
\* eventually releases it, on every path (enemy defeated, enemy miss, player
\* defeated, normal completion), provided each pacing delay elapses; the
\* lock is never held forever.
C19_RoundCompletes == turnLock ~> ~turnLock

\* the round in which the player fell has ended and the lock is free again
C19_Witness ==
    /\ InScene /\ ~turnLock /\ pc = "idle"
    /\ cur.entry # "" /\ cur.php0 > 0 /\ player.hp = 0
    /\ hist.eturns = cur.eturns0 + 1

---------------------------------------------------------------------------
(* Further properties of combatManager.js (checked under SpecMath) *)

\* C21 (damage formula): on a hit with variance 0 computeDamage's raw value
\* is base + atk + powerBonus - def for a physical ability and
\* base + magAtk + powerBonus - magRes for a magic one; with an element the
\* raw value is multiplied by (1 - r/100), r the defender's resistance to
\* that element clamped to [0, 100]; the total is max(1, round(result)).
C21_DamageFormula ==
    (Returned("computeDamage") /\ op.variance = 0) =>
        LET raw == IF op.type = "magic"
                   THEN op.base + op.magAtk + op.powerBonus - op.magRes
                   ELSE op.base + op.stat + op.powerBonus - op.def
            r == IF op.resistPct < 0 THEN 0
                 ELSE IF op.resistPct > 100 THEN 100 ELSE op.resistPct
            result == IF op.element = "" THEN <<raw, 1>> ELSE <<raw * (100 - r), 100>>
        IN ret.final = Num(Max2(1, Round(result[1], result[2])))

\* a magic fire ability against half resistance: (3 + 7 + 2 - 1) / 2 rounds to 6
C21_Witness ==
    /\ Returned("computeDamage") /\ op.variance = 0
    /\ op.type = "magic" /\ op.element = "fire" /\ op.resistPct = 50
    /\ op.base = 3 /\ op.magAtk = 7 /\ op.powerBonus = 2 /\ op.stat = 0 /\ op.def = 50
    /\ ret.final = Num(6)

\* C22 (miss outcome): when the roll exceeds the chance, resolveAttack's
\* result has ok = true, hit = false, totals.damage = 0 and exactly one
\* event (attack/miss); computeDamage is not run: no variance draw is
\* consumed and no damage event is emitted.
C22_MissOutcome ==
    (Returned("resolveAttack") /\ op.mpCost <= op.mp
        /\ op.roll > hitChance(fromCatalog(AttackerOf(op)), fromCatalog(DefenderOf(op)),
                               AbilityOf(op))) =>
        /\ ret.result.ok /\ ~ret.result.hit /\ ret.result.damage = 0
        /\ ret.result.events = <<"attack/miss">>
        /\ ret.result.draws = 1

\* a miss on roll 71 against chance 70 with an ability that has a variance
C22_Witness ==
    /\ Returned("resolveAttack")
    /\ op.roll = 71 /\ op.variance > 0 /\ op.mpCost = 0
    /\ ~ret.result.hit /\ ret.result.draws = 1

(***************************************************************************)
(* Further properties of resourceManager.js (checked under SpecRes)        *)
(***************************************************************************)

\* the entries of a call's map that ask for something: <<rawKey, amount>>
AskingEntries(o) ==
    {CostEntries(o.map, o.fallback)[i] : i \in 1..Len(CostEntries(o.map, o.fallback))}
        \cap {e \in {CostEntries(o.map, o.fallback)[i] :
                       i \in 1..Len(CostEntries(o.map, o.fallback))} :
                e[2] > 0 /\ e[1] # NoKey}

\* the canonical keys those entries name
NamedKeys(o) == {normalizeResourceKey(e[1]) : e \in AskingEntries(o)}

NoPool(p, key) == normalizeResourceKey(key) # NoKey /\ ~HasPool(p, normalizeResourceKey(key))

\* C23: a key that names no pool is not fatal: canSpend and spend return
\* false, validateResourceCost reports the entry as missing with available 0
\* (and the cost is not applied), adjustResource, applyResourceGain and
\* regenTurn do nothing for it; every call returns, no pool is created and
\* no existing pool is changed on the missing key's account.
C23_MissingPool ==
    [][scene = "res" =>
        /\ (op'.name \in {"spend", "canSpend", "adjustResource"} /\ NoPool(player, op'.key))
              => (~ret'.ok /\ player' = player)
        /\ (op'.name = "applyResourceCost"
              /\ \E k \in NamedKeys(op') : ~HasPool(player, k))
              => /\ ~ret'.ok
                 /\ player' = player
                 /\ \A e \in AskingEntries(op') :
                       NoPool(player, e[1]) =>
                          \E j \in 1..Len(ret'.missing) :
                             /\ ret'.missing[j].key = normalizeResourceKey(e[1])
                             /\ ret'.missing[j].required >= e[2]
                             /\ ret'.missing[j].available = 0
        /\ op'.name = "applyResourceGain"
              => /\ PoolsOf(player') = PoolsOf(player)
                 /\ \A k \in PoolsOf(player) :
                       k \notin NamedKeys(op') => player'.resources[k] = player.resources[k]
                 /\ (\A k \in NamedKeys(op') : ~HasPool(player, k)) => player' = player
        /\ op'.name = "regenTurn" => PoolsOf(player') = PoolsOf(player)]_vars

C23_Witness ==
    /\ scene = "res"
    /\ op.name = "applyResourceCost"
    /\ op.map = ObjMap(<< <<"rage", MaxAmt + 1>> >>)
    /\ ~ret.ok
    /\ ret.missing = <<[key |-> "rage", required |-> MaxAmt + 1, available |-> 0]>>
    /\ ~HasPool(player, "rage")

\* C24: syncCanonical sets the max of every pool tied to a stat with a finite
\* value to that stat's value floored at 0 and re-clamps current into
\* [0, max]; a pool without a tied stat keeps its max; a tied stat lowered
\* below current lowers current to the new max.
C24_SyncCanonical ==
    [][(scene = "res" /\ op'.name = "syncCanonical") =>
        /\ PoolsOf(player') = PoolsOf(player)
        /\ \A k \in PoolsOf(player) :
              LET res == player.resources[k]
                  after == player'.resources[k]
                  tied == res.tiesToStat # None /\ NumField(player, res.tiesToStat[1]) # None
                  stat == NumField(player, res.tiesToStat[1])[1]
              IN /\ tied => after.max = (IF stat < 0 THEN 0 ELSE stat)
                 /\ ~tied => after.max = res.max
                 /\ after.current = (IF res.current > after.max THEN after.max
                                      ELSE IF res.current < 0 THEN 0 ELSE res.current)
                 /\ (tied /\ stat >= 0 /\ stat < res.current) => after.current = stat]_vars

\* the tied stat was pushed below zero and the pool followed it down to 0
C24_Witness ==
    /\ scene = "res"
    /\ op.name = "syncCanonical"
    /\ player.spd = -1
    /\ player.resources["stamina"].tiesToStat = Some("spd")
    /\ player.resources["stamina"].max = 0
    /\ player.resources["stamina"].current = 0
    /\ player.resources["mana"].max = MaxAmt

\* C25: regenTurn raises the current of each pool with a nonzero regenPerTurn
\* by min(regenPerTurn, max - current) and changes nothing else (the legacy
\* mp / mpMax fields keep mirroring the mana pool).
C25_RegenTurn ==
    [][(scene = "res" /\ op'.name = "regenTurn") =>
        /\ PoolsOf(player') = PoolsOf(player)
        /\ \A k \in PoolsOf(player) :
              LET res == player.resources[k]
                  room == res.max - res.current
                  gain == IF res.regenPerTurn = 0 THEN 0
                          ELSE IF res.regenPerTurn < room THEN res.regenPerTurn ELSE room
              IN player'.resources[k] = [res EXCEPT !.current = res.current + gain]
        /\ [player' EXCEPT !.resources = player.resources,
                            !.mp = player.mp, !.mpMax = player.mpMax] = player
        /\ HasPool(player, "mana") =>
              /\ player'.mp = Some(player'.resources["mana"].current)
              /\ player'.mpMax = Some(player'.resources["mana"].max)]_vars

\* regenTurn lifted an empty mana pool by its regenPerTurn and left the spent
\* stamina pool, which has none, where it was
C25_Witness ==
    /\ scene = "res"
    /\ op.name = "regenTurn"
    /\ player.resources["mana"].regenPerTurn = 1
    /\ player.resources["mana"].current = 1
    /\ player.resources["mana"].max > 2
    /\ player.resources["stamina"].regenPerTurn = 0
    /\ player.resources["stamina"].current = 0
    /\ player.resources["stamina"].max > 0

(***************************************************************************)
(* initFromClass on its own: the class definition and the combatant are    *)
(* drawn at the start, the call builds the pools (specification SpecInit)  *)
(***************************************************************************)

\* one resource definition {max?, maxFromStat?} under a raw key, and the
\* combatant's legacy mp / mpMax
InitCalls ==
    [name : {"initFromClass"},
     rawKey : {"mp", "sp", "hp", "fury", "xp"},
     max : {None, Some(2), Some(-1)},
     maxFromStat : {None, Some("spd"), Some("luck")},
     mpMax : {None, Some(MaxAmt)}]

ClassOf(o) ==
    [resourceDefinitions |->
        << <<o.rawKey, [EmptyDef EXCEPT !.max = o.max, !.maxFromStat = o.maxFromStat]>> >>,
     resources |-> <<>>,
     skills |-> <<>>]

CombatantOf(o) == [Combatant(MaxHp, 0, 3, 3, 1) EXCEPT !.mp = o.mpMax, !.mpMax = o.mpMax]

InitClass ==
    /\ scene = "init"
    /\ op \in InitCalls
    /\ player = CombatantOf(op)
    /\ enemy = StartEnemy("slime")
    /\ turnLock = FALSE
    /\ turn = 1
    /\ _turn = 0
    /\ logs = [len |-> 0, last |-> ""]
    /\ pc = "idle"
    /\ cur = IdleCur
    /\ ret = NoRet
    /\ hist = Hist0

\* initFromClass(classDef, player): player.resources is rebuilt and synced
InitFromClass ==
    /\ scene = "init"
    /\ ret = NoRet
    /\ player' = initFromClass(ClassOf(op), player)
    /\ ret' = [ok |-> TRUE, tag |-> "init"]
    /\ UNCHANGED <<enemy, turnLock, turn, _turn, logs, pc, cur, hist, scene, op>>

NextInit == InitFromClass

SpecInit == InitClass /\ [][NextInit]_vars

\* the resolution order of a pool's max as the specification words it
DeclaredMaxOf(o, key) ==
    IF normalizeResourceKey(o.rawKey) = key THEN o.max ELSE None

TiedStatOf(o, key) ==
    IF normalizeResourceKey(o.rawKey) = key /\ o.maxFromStat # None
    THEN NumField(CombatantOf(o), o.maxFromStat[1])
    ELSE None

DomainDefaultOf(o, key) ==
    IF key = "mana" THEN (IF o.mpMax # None THEN o.mpMax[1] ELSE 0)
    ELSE IF key \in {"stamina", "energy", "focus", "faith", "ki", "rage"} THEN DefaultPoolMax
    ELSE 0

ExpectedMax(o, key) ==
    IF DeclaredMaxOf(o, key) # None THEN Max2(0, DeclaredMaxOf(o, key)[1])
    ELSE IF TiedStatOf(o, key) # None THEN Max2(0, TiedStatOf(o, key)[1])
    ELSE DomainDefaultOf(o, key)

\* C26: initFromClass resolves each pool's max as: the explicitly declared
\* max; else the value of the tied stat named by maxFromStat; else the domain
\* default of the resource kind; else 0. No other field of the combatant
\* comes before the domain default.
C26_MaxOrder ==
    (scene = "init" /\ ret.tag = "init") =>
        \A k \in PoolsOf(player) : player.resources[k].max = ExpectedMax(op, k)

\* the same order where it is followed: no declared max next to a tied stat
\* that exists, and no pool named after a `<key>Max` field of the combatant
C26_MaxOrderElsewhere ==
    (scene = "init" /\ ret.tag = "init") =>
        \A k \in PoolsOf(player) :
            (~(DeclaredMaxOf(op, k) # None /\ TiedStatOf(op, k) # None)
               /\ ~(k = "hp" /\ DeclaredMaxOf(op, k) = None /\ TiedStatOf(op, k) = None))
              => player.resources[k].max = ExpectedMax(op, k)

(***************************************************************************)
(* Further properties of the scenes (checked under Spec)                   *)
(***************************************************************************)

\* a hit of useSkill landed on the enemy / a hit of _enemyTurn on the player
PlayerHits ==
    /\ scene = "cm" /\ hist'.calls = hist.calls + 1 /\ ret'.tag = "accepted"
    /\ cur'.lines = <<"takes damage">>

EnemyHits ==
    /\ scene = "cm" /\ pc = "eturn" /\ hist'.last = "eturn"
    /\ logs'.last \in {"takes damage", "fallen"}

\* shield s and hit points hp after a damage of d that the shield absorbs first
AbsorbedFirst(before, after, d) ==
    /\ after.shield = before.shield - Min2(before.shield, d)
    /\ after.hp = Max2(0, before.hp - Max2(0, d - before.shield))

\* C27: in the scene of BattleScene.js a combatant holding a shield S > 0
\* that takes a damage D (D >= 1) from useSkill or _enemyTurn loses
\* min(S, D) of the shield and max(0, D - S) hit points, not D hit points.
C27_ShieldBeforeHp ==
    [][/\ (EnemyHits /\ player.shield > 0) =>
             \E d \in 1..(player.hp + player.shield + 1) : AbsorbedFirst(player, player', d)
       /\ (PlayerHits /\ enemy.shield > 0) =>
             \E d \in 1..(enemy.hp + enemy.shield + 1) : AbsorbedFirst(enemy, enemy', d)]_vars

\* the step that completes a round started by useSkill: the enemy has
\* replied and the player is still alive
CMRoundCompletes ==
    /\ scene = "cm" /\ pc = "eturn" /\ pc' = "idle"
    /\ cur.entry = "useSkill"
    /\ player'.hp > 0

\* C28: in the scene of BattleScene.js every round completed through
\* useSkill (the player's action, then the enemy's reply, the player still
\* alive) raises each of the player's pools with a nonzero regenPerTurn by
\* that amount, clamped to max, exactly once.
C28_RoundRegen ==
    [][CMRoundCompletes =>
         \A k \in PoolsOf(player) :
             CurrentOf(player', k) =
                 Min2(player.resources[k].max,
                      CurrentOf(player, k) + player.resources[k].regenPerTurn)]_vars

\* `scaled` of a damage skill as a fraction: the formula's value, or the roll
\* plus the attacker's scaled atk and mag
ScaledOf(attacker, skill, roll) ==
    LET dmg == FirstFx(skill, "damage")
        dmgRoll == FirstFx(skill, "damage_roll")
    IN IF dmg # None THEN evalFormula(dmg[1], attacker)
       ELSE <<roll + attacker.atk * dmgRoll[1].sAtk + attacker.mag * dmgRoll[1].sMag, 1>>

\* max(1, round(scaled - defender's def))
ScaledMinusDef(attacker, defender, skill, roll) ==
    LET scaled == ScaledOf(attacker, skill, roll) IN
    Max2(1, Round(scaled[1] - defender.def * scaled[2], scaled[2]))

\* C29: in the scene of BattleScene.js a damage skill whose formula or roll
\* evaluates to `scaled` deals, on a hit, max(1, round(scaled - defender's
\* def)) before elemental resistance, from the player to the enemy and from
\* the enemy to the player (combatants with flat atk / mag / def fields).
C29_ScaledMinusDef ==
    [][/\ PlayerHits =>
             \E roll \in RollRange(cur'.skill) :
                 enemy'.hp = Max2(0, enemy.hp - ScaledMinusDef(player, enemy, cur'.skill, roll))
       /\ EnemyHits =>
             \E roll \in RollRange(cur'.eskill) :
                 player'.hp = Max2(0, player.hp
                                        - ScaledMinusDef(enemy, player, cur'.eskill, roll))]_vars

\* this step applies a buff, heal or shield effect of a skill the player
\* used with target 'self' in the K_DEF scene
SelfEffectStep ==
    /\ scene = "kdef" /\ pc = "pfx" /\ FxStep
    /\ cur.skill.target = "self"
    /\ cur.skill.effects[cur.i].kind \in {"buff", "heal", "shield"}

StatsOf(u) ==
    [hp |-> u.hp, hpMax |-> u.hpMax, shield |-> u.shield,
     atk |-> u.atk, mag |-> u.mag, def |-> u.def, spd |-> u.spd]

\* C30: in the K_DEF scene a skill declared with target 'self' (Defend, a
\* heal, a shield) affects only its user: the stat, HP or shield change
\* lands on the player and the enemy's stats, HP and shield are unchanged.
C30_SelfTarget ==
    [][SelfEffectStep =>
         LET fx == cur.skill.effects[cur.i] IN
         /\ StatsOf(enemy') = StatsOf(enemy)
         /\ fx.kind = "buff" => player'[fx.stat] = player[fx.stat] + fx.amount
         /\ fx.kind = "heal" =>
               player'.hp = Min2(player.hpMax, player.hp + Max2(1, fx.amount))
         /\ fx.kind = "shield" => player'.shield = player.shield + fx.amount]_vars

(***************************************************************************)
(* Injected randomness of combatManager.js (checked under SpecMath)        *)
(***************************************************************************)

\* C31: resolveAttack draws all of its randomness, the hit roll and the
\* base-power variance, from the rng passed in options: the result of a call
\* is fixed by attacker, defender, ability and that rng's stream (its first
\* value gives the roll, its next value the variance draw), so two calls with
\* the same arguments and streams return the same result, also with
\* variance > 0.
C31_InjectedRng ==
    Returned("resolveAttack") =>
        ret.result = resolveAttack(AttackerOf(op), DefenderOf(op), AbilityOf(op),
                                   op.roll, op.next)

\* the same for abilities without variance, where only the hit roll is drawn
C31_InjectedRngNoVariance ==
    (Returned("resolveAttack") /\ op.variance = 0) =>
        ret.result = resolveAttack(AttackerOf(op), DefenderOf(op), AbilityOf(op),
                                   op.roll, op.next)

(***************************************************************************)
(* Cooldown timing of the enemy's skills (checked under Spec)              *)
(***************************************************************************)

Accepted ==
    /\ IsCall /\ ret'.tag = "accepted"
    /\ op'.name \in {"useSkill", "useAbility"}

\* the skill of the accepted call
AcceptedSkill == SkillById(actionBar(scene), op'.key)

\* C33: whenever a player action is accepted, each resource named in the
\* skill's cost decreases by exactly its declared amount (amounts under alias
\* keys of the same pool, such as mp and mana, are summed) and no other pool
\* changes: an accepted action never pays less than its declared total cost.
C33_ExactPayment ==
    [][Accepted =>
         LET entries == CostEntries(AcceptedSkill.cost, AcceptedSkill.resource) IN
         /\ PoolsOf(player') = PoolsOf(player)
         /\ \A k \in PoolsOf(player) :
               CurrentOf(player', k) = CurrentOf(player, k) - AskedOf(entries, k)]_vars

\* the same in the scene of BattleScene.js, which pays through applyResourceCost
C33_ExactPaymentCM ==
    [][(Accepted /\ scene = "cm") =>
         LET entries == CostEntries(AcceptedSkill.cost, AcceptedSkill.resource) IN
         /\ PoolsOf(player') = PoolsOf(player)
         /\ \A k \in PoolsOf(player) :
               CurrentOf(player', k) = CurrentOf(player, k) - AskedOf(entries, k)]_vars

(***************************************************************************)
(* Round trip and mirror of resourceManager.js (checked under SpecRes)     *)
(***************************************************************************)

\* C34: a successful applyResourceCost followed by applyResourceGain with the
\* returned entries restores every pool's current value, and the mirrored mp
\* field, to what it was before the cost was applied.
C34_CostRefundRoundTrip ==
    (scene = "res" /\ ret.tag = "undo") =>
        /\ SamePools(ret.before, player)
        /\ player.mp = ret.before.mp

\* a cost on two pools, one of them under two alias keys, was paid and undone
C34_Witness ==
    /\ scene = "res" /\ ret.tag = "undo"
    /\ op.map = ObjMap(<< <<"mp", 1>>, <<"mana", 1>>, <<"sp", 1>> >>)
    /\ CurrentOf(player, "mana") = 2 /\ player.mp = Some(2)
    /\ CurrentOf(player, "stamina") >= 1

\* C35: after initFromClass and after every resourceManager operation
\* (adjustResource, spend, applyResourceCost, applyResourceGain, regenTurn,
\* syncCanonical) a combatant with a mana pool has mp equal to
\* resources.mana.current and mpMax equal to resources.mana.max.
C35_ManaMirror ==
    ((scene = "res" \/ (scene = "init" /\ ret.tag = "init")) /\ HasPool(player, "mana")) =>
        /\ player.mp = Some(player.resources["mana"].current)
        /\ player.mpMax = Some(player.resources["mana"].max)

\* a spend under the alias mp emptied the mana pool and mp followed it
C35_Witness ==
    /\ scene = "res"
    /\ op.name = "spend" /\ op.key = "mp" /\ op.amount > 0 /\ ret.ok
    /\ player.resources["mana"].current = 0
    /\ player.mp = Some(0)
    /\ player.mpMax = Some(player.resources["mana"].max)

(***************************************************************************)
(* Durations (checked under Spec)                                          *)
(***************************************************************************)

\* what buff, shield, vulnerability and evasion effects change on a combatant
BuffedOf(u) ==
    [atk |-> u.atk, mag |-> u.mag, def |-> u.def, spd |-> u.spd,
     shield |-> u.shield, vuln |-> u.vuln, evasionPct |-> u.evasionPct]

\* no value of BuffedOf is lower in v than in u
NotLowered(u, v) == \A f \in DOMAIN BuffedOf(u) : BuffedOf(v)[f] >= BuffedOf(u)[f]

\* this step applies effects of a skill or damage: one effect of the K_DEF
\* loop, or the whole skill of useSkill / _enemyTurn in BattleScene.js
AppliesEffects ==
    \/ scene = "kdef" /\ FxStep
    \/ scene = "cm" /\ (Accepted \/ EnemyActs)

\* C36: whatever duration a buff, shield, vulnerability or evasion effect
\* declares, no later enemy turn, regeneration step or round advance reverts
\* the changed stat or pool: the change stays until another effect or
\* damage alters it.
C36_NoExpiry ==
    [][/\ ~AppliesEffects =>
            (BuffedOf(player') = BuffedOf(player) /\ BuffedOf(enemy') = BuffedOf(enemy))
       /\ (scene = "cm" /\ AppliesEffects) =>
            (NotLowered(player, player') /\ NotLowered(enemy, enemy'))]_vars

\* Defend's def +2 (duration 1) of the first round is still there after a
\* second round of endTurn: enemy turn, regeneration and round advance
C36_Witness ==
    /\ scene = "kdef" /\ pc = "idle" /\ hist.last = "rend"
    /\ turn = 3 /\ hist.calls = 2 /\ op.name = "endTurn"
    /\ enemy.raw = "slime"
    /\ player.def + enemy.def = 4

---------------------------------------------------------------------------
(* GameLogger: the telemetry queue and its batch shipping                   *)
(*                                                                         *)
(* scene "log".  cur holds the module state (_queue, _isFlushing,          *)
(* _pendingFlush, _retryDelay, _nextAllowedFlush) and the locals of the    *)
(* flush suspended at its await (batch, force); ret.delivered is what the  *)
(* endpoint has acknowledged; hist holds the clock and the interval timer. *)
(* Events are numbered in the order enqueue accepted them.                 *)

\* _config.maxBatch as configured through GameLogger.init (default 25)
maxBatch == 2
\* DEFAULT_CONFIG.flushInterval, in milliseconds
flushInterval == 750
\* the first retry delay and the cap of the doubling, in milliseconds
RetryFirst == 1000
RetryCap == 10000
\* the clock stops here
MaxTime == 3000
\* events enqueue accepts in one run
MaxEvents == maxBatch + 1

\* _queue.splice(0, n): what is removed and what stays
Take(q, n) == SubSeq(q, 1, Min2(Len(q), n))
Drop(q, n) == SubSeq(q, Min2(Len(q), n) + 1, Len(q))

\* canFlush(force) at time now; online is navigator.onLine
canFlush(g, force, now, online) ==
    IF ~force /\ g._nextAllowedFlush # 0 /\ now < g._nextAllowedFlush
    THEN FALSE
    ELSE online

\* flush({ force }) up to its await: the request is issued with the batch
flush(g, force, now, online) ==
    IF g._isFlushing THEN [g EXCEPT !._pendingFlush = TRUE]
    ELSE IF Len(g._queue) = 0 \/ ~canFlush(g, force, now, online) THEN g
    ELSE [g EXCEPT !._queue = Drop(@, maxBatch),
                   !.batch = Take(g._queue, maxBatch),
                   !.force = force,
                   !._isFlushing = TRUE]

\* the try block after a response that is ok
requestOk(g) == [g EXCEPT !._retryDelay = 0, !._nextAllowedFlush = 0]

requestFailedDropping(g, now) ==
    LET d == IF g._retryDelay # 0 THEN Min2(g._retryDelay * 2, RetryCap) ELSE RetryFirst
    IN  [g EXCEPT !._retryDelay = d, !._nextAllowedFlush = now + d]

\* the catch block: the batch goes back to the front, the delay doubles
requestFailed(g, now) ==
    LET d == IF g._retryDelay # 0 THEN Min2(g._retryDelay * 2, RetryCap) ELSE RetryFirst
    IN  [g EXCEPT !._queue = g.batch \o @,
                  !._retryDelay = d,
                  !._nextAllowedFlush = now + d]

\* the finally block: flush again, with the same force, when a flush was
\* asked for meanwhile or a full batch is waiting
finallyOf(g, now, online) ==
    LET shouldRetry == g._pendingFlush \/ Len(g._queue) >= maxBatch
        h == [g EXCEPT !._isFlushing = FALSE, !._pendingFlush = FALSE, !.batch = <<>>]
    IN  IF Len(h._queue) > 0 /\ shouldRetry
        THEN flush(h, g.force, now, online)
        ELSE h

Logger0 ==
    [_queue |-> <<>>, _isFlushing |-> FALSE, _pendingFlush |-> FALSE,
     _retryDelay |-> 0, _nextAllowedFlush |-> 0, batch |-> <<>>, force |-> FALSE]

InitLog ==
    /\ scene = "log"
    /\ cur = Logger0
    /\ op = [name |-> ""]
    /\ ret = [delivered |-> <<>>]
    /\ hist = [now |-> 0, nextTimer |-> flushInterval, accepted |-> 0]
    /\ player = StartPlayer
    /\ enemy = StartEnemy("slime")
    /\ turnLock = FALSE
    /\ turn = 1
    /\ _turn = 0
    /\ logs = [len |-> 0, last |-> ""]
    /\ pc = "idle"

LogFrame == UNCHANGED <<player, enemy, turnLock, turn, _turn, logs, pc, scene>>

\* enqueue(level, event, ...): an event without a name is not accepted; an
\* accepted one is pushed, and a queue of maxBatch events forces a flush
Enqueue ==
    /\ scene = "log"
    /\ hist.accepted < MaxEvents
    /\ \E named \in BOOLEAN, online \in BOOLEAN :
          IF ~named
          THEN /\ op' = [name |-> "rejected"]
               /\ UNCHANGED <<cur, hist>>
          ELSE LET g == [cur EXCEPT !._queue = Append(@, hist.accepted + 1)]
               IN  /\ cur' = IF Len(g._queue) >= maxBatch
                             THEN flush(g, TRUE, hist.now, online)
                             ELSE g
                   /\ hist' = [hist EXCEPT !.accepted = @ + 1]
                   /\ op' = [name |-> "enqueue"]
    /\ UNCHANGED ret
    /\ LogFrame

\* the setInterval callback: flush()
TimerFlush ==
    /\ scene = "log"
    /\ hist.now = hist.nextTimer
    /\ \E online \in BOOLEAN : cur' = flush(cur, FALSE, hist.now, online)
    /\ hist' = [hist EXCEPT !.nextTimer = @ + flushInterval]
    /\ op' = [name |-> "timer"]
    /\ UNCHANGED ret
    /\ LogFrame

\* GameLogger.flushNow(), the online and the visibilitychange listeners:
\* flush({ force: true })
FlushNow ==
    /\ scene = "log"
    /\ \E online \in BOOLEAN : cur' = flush(cur, TRUE, hist.now, online)
    /\ op' = [name |-> "flushNow"]
    /\ UNCHANGED <<ret, hist>>
    /\ LogFrame

\* the awaited fetch resolves with an ok response
RequestSucceeds ==
    /\ scene = "log"
    /\ cur._isFlushing
    /\ \E online \in BOOLEAN : cur' = finallyOf(requestOk(cur), hist.now, online)
    /\ ret' = [ret EXCEPT !.delivered = @ \o cur.batch]
    /\ op' = [name |-> "requestSucceeded"]
    /\ UNCHANGED hist
    /\ LogFrame

\* the awaited fetch rejects, or its response is not ok
RequestFails ==
    /\ scene = "log"
    /\ cur._isFlushing
    /\ \E online \in BOOLEAN :
          cur' = finallyOf(requestFailed(cur, hist.now), hist.now, online)
    /\ op' = [name |-> "requestFailed"]
    /\ UNCHANGED <<ret, hist>>
    /\ LogFrame

\* Date.now() moves on to the next instant at which something is due: the
\* interval timer or the end of the retry delay
Advance ==
    /\ scene = "log"
    /\ hist.now < hist.nextTimer
    /\ \E t \in {IF cur._nextAllowedFlush > hist.now
                 THEN Min2(hist.nextTimer, cur._nextAllowedFlush)
                 ELSE hist.nextTimer} :
          /\ t <= MaxTime
          /\ hist' = [hist EXCEPT !.now = t]
    /\ op' = [name |-> "advance"]
    /\ UNCHANGED <<cur, ret>>
    /\ LogFrame

NextLog ==
    \/ Enqueue
    \/ TimerFlush
    \/ FlushNow
    \/ RequestSucceeds
    \/ RequestFails
    \/ Advance

SpecLog == InitLog /\ [][NextLog]_vars

---------------------------------------------------------------------------
(* Telemetry: where an accepted event is *)

\* how many times event e occurs in the sequence s
Occurrences(s, e) == Cardinality({i \in DOMAIN s : s[i] = e})

\* every accepted event is in exactly one of: the pending queue, the batch
\* of the request in flight, what the endpoint acknowledged
Conserved(g, delivered, accepted) ==
    \A e \in 1..accepted :
        Occurrences(g._queue, e) + Occurrences(g.batch, e)
            + Occurrences(delivered, e) = 1

\* C37: every event enqueue accepted is at every moment in exactly one
\* place (pending queue, batch of the request in flight, delivered by a
\* successful request); a failed request returns its whole batch to the
\* front of the queue; no event is dropped or delivered twice under any
\* interleaving of enqueue, timer flush, forced flush and request
\* completion.
C37_Conservation ==
    [][scene = "log" =>
          /\ Conserved(cur', ret'.delivered, hist'.accepted)
          /\ op'.name = "requestFailed" =>
                /\ cur'.batch \o cur'._queue = cur.batch \o cur._queue
                /\ ret'.delivered = ret.delivered]_vars

\* a full batch failed after another event was enqueued behind it: the
\* batch went back in front of that event and is in flight again
C37_Witness ==
    /\ scene = "log"
    /\ op.name = "requestFailed"
    /\ cur._retryDelay = RetryFirst
    /\ cur._isFlushing
    /\ cur.batch = [i \in 1..maxBatch |-> i]
    /\ Len(cur._queue) >= 1
    /\ ret.delivered = <<>>

---------------------------------------------------------------------------
(* Telemetry: retry backoff *)

\* this step issues a request
IssuesRequest ==
    /\ cur'._isFlushing
    /\ ~cur._isFlushing \/ op'.name \in {"requestSucceeded", "requestFailed"}

\* the step is one of GameLogger's own triggers: the interval timer, the
\* re-trigger of the finally block, enqueue reaching maxBatch
OwnTrigger == op'.name \in {"timer", "enqueue", "requestSucceeded", "requestFailed"}

\* C38: while the endpoint keeps failing, a request issued by one of
\* GameLogger's own triggers comes no earlier than the retry delay after
\* the failure before it (_nextAllowedFlush); a failing endpoint never
\* causes back-to-back requests.
C38_Backoff ==
    [][(scene = "log" /\ IssuesRequest /\ OwnTrigger) =>
          hist'.now >= cur'._nextAllowedFlush]_vars

\* the interval timer alone keeps the delay
C38_TimerBackoff ==
    [][(scene = "log" /\ IssuesRequest /\ op'.name = "timer") =>
          hist'.now >= cur'._nextAllowedFlush]_vars

====
